---- MODULE Spec2Model ----
(***************************************************************************)
(* Intraday trading engine of smartapi/strategy.py and its refactored      *)
(* variant smartapi/strategy_refactored.py (with indicator_manager.py and  *)
(* indicators.py): tick -> one-minute bars -> indicators -> position and   *)
(* risk state machine -> ledger.                                           *)
(*                                                                         *)
(* Representation.  Prices and point offsets are integers.  A timestamp is *)
(* an integer number of minutes (day * MinutesPerDay + minute of day), all *)
(* in the session's own time zone.  A Python None is the empty sequence    *)
(* <<>> and a present value v is <<v>>.  Quantities (position_size, trade  *)
(* quantity) and money (pnl, current_equity) are held in units of          *)
(* 1/SizeScale so that the 50% and 60% partial exits are exact.  A float   *)
(* indicator value is a record [nan, num, den] for the rational num/den.   *)
(***************************************************************************)
EXTENDS Integers, Sequences, FiniteSets, TLC

VARIABLES run, strat, tick, nticks, ordered, monitor, panel, bot

vars == <<run, strat, tick, nticks, ordered, monitor, panel, bot>>

----------------------------------------------------------------------------
(* Bounds of the exploration *)

\* free (unconstrained) ticks explored after the warm-up tape
MaxFreeTicks == 4

\* lines written to the bot's log while the status panel is watched
MaxLogLines == 3

\* seconds the status panel is watched for
MaxElapsed == 121

\* ticks the data stream hands to the live bot while its lifecycle is followed
MaxDelivered == 2

----------------------------------------------------------------------------
(* Program constants *)

MinutesPerDay == 1440
DefaultInitialCapital == 100000
MinSignalBars == 20
HtfPeriod == 20
BlackoutMinutes == 30
RefactoredMaxBars == 100
SizeScale == 10
EmaScale == 1000
Tp1Percent == 50
Tp2Percent == 60
FullPercent == 100
RsiDefault == 50

None == <<>>
Some(v) == <<v>>
IsNone(o) == o = <<>>
Val(o) == o[1]

Max2(a, b) == IF a >= b THEN a ELSE b
Min2(a, b) == IF a <= b THEN a ELSE b
Abs(a) == IF a >= 0 THEN a ELSE -a

\* evaluate v once, then F on its value (a local assignment)
Then(v, F(_)) == CHOOSE r \in {F(x) : x \in {v}} : TRUE

RECURSIVE MaxOfSet(_)
MaxOfSet(S) ==
  LET x == CHOOSE y \in S : TRUE
  IN IF S = {x} THEN x ELSE Max2(x, MaxOfSet(S \ {x}))

\* Python int(): truncation toward zero
PyInt(a, b) == IF a >= 0 THEN a \div b ELSE -((-a) \div b)

LastN(seq, n) ==
  IF Len(seq) <= n THEN seq ELSE SubSeq(seq, Len(seq) - n + 1, Len(seq))

NaN == [nan |-> TRUE, num |-> 0, den |-> 1]
Num(n, d) == [nan |-> FALSE, num |-> n, den |-> d]
\* a > b on floats: any comparison with NaN is false
Gt(a, b) == ~a.nan /\ ~b.nan /\ a.num * b.den > b.num * a.den
Lt(a, b) == Gt(b, a)

Get(d, k, default) == IF k \in DOMAIN d THEN d[k] ELSE default
Put(d, k, v) == [x \in DOMAIN d \cup {k} |-> IF x = k THEN v ELSE d[x]]

----------------------------------------------------------------------------
(* Configuration: __init__ defaults overridden by the params mapping *)

Defaults ==
  [ initial_capital |-> DefaultInitialCapital,
    use_supertrend |-> TRUE, use_vwap |-> TRUE,
    use_ema_crossover |-> TRUE, use_rsi_filter |-> TRUE,
    is_intraday |-> TRUE,
    intraday_start_hour |-> 9, intraday_start_min |-> 15,
    intraday_end_hour |-> 15, intraday_end_min |-> 15,
    rsi_length |-> 14, rsi_overbought |-> 70, rsi_oversold |-> 30,
    atr_len |-> 10, atr_mult |-> 3, fast_ema |-> 9, slow_ema |-> 21,
    base_sl_points |-> 15, use_trail_stop |-> TRUE,
    trail_activation_points |-> 25, trail_distance_points |-> 10,
    use_tiered_tp |-> TRUE,
    tp1_points |-> 25, tp2_points |-> 45, tp3_points |-> 100,
    exit_before_close |-> 20, risk_per_trade_percent |-> 1,
    reentry_price_buffer |-> 5, reentry_momentum_lookback |-> 3,
    reentry_min_green_candles |-> 1 ]

\* for k, v in params.items(): setattr(self, k, v)
Configure(p) ==
  [k \in DOMAIN Defaults |-> IF k \in DOMAIN p THEN p[k] ELSE Defaults[k]]

\* run.params is the params mapping given to the constructor
cfg == Configure(run.params)

min_bars_for_signals ==
  MaxOfSet({cfg.atr_len, cfg.rsi_length, cfg.slow_ema, MinSignalBars,
            cfg.reentry_momentum_lookback})

max_bar_history_length ==
  IF run.variant = "refactored" THEN RefactoredMaxBars
  ELSE 2 * min_bars_for_signals

----------------------------------------------------------------------------
(* Bar-based indicators, computed on the closed-bar history h *)

Closes(h) == [i \in 1..Len(h) |-> h[i].close]

\* max(high-low, |high-prevClose|, |low-prevClose|) of row i >= 2
TrueRange(h, i) ==
  Max2(h[i].high - h[i].low,
       Max2(Abs(h[i].high - h[i - 1].close), Abs(h[i].low - h[i - 1].close)))

RECURSIVE SumTrueRange(_, _, _)
SumTrueRange(h, from, to) ==
  IF from > to THEN 0 ELSE TrueRange(h, from) + SumTrueRange(h, from + 1, to)

\* rolling(window=atr_len).mean().iloc[-1] of the true range
RollingAtr(h, atr_len) ==
  Num(SumTrueRange(h, Len(h) - atr_len + 1, Len(h)), atr_len)

_calculate_atr_latest(h) ==
  IF Len(h) < cfg.atr_len + 1 THEN NaN ELSE RollingAtr(h, cfg.atr_len)

\* One Supertrend update on the latest bar.  st is [trend, upper, lower];
\* the bands are kept multiplied by 3 * atr_len (hlc3 has denominator 3,
\* the ATR has denominator atr_len).  c is the close, upperband and
\* lowerband the raw bands, on that scale.
SupertrendBands(st, c, upperband, lowerband) ==
  LET uninit == IsNone(st.upper) \/ IsNone(st.lower)
      fu0 == IF uninit THEN upperband ELSE Val(st.upper)
      fl0 == IF uninit THEN lowerband ELSE Val(st.lower)
      fu1 == IF c > fu0 THEN lowerband ELSE Min2(upperband, fu0)
      fl1 == IF c < fl0 THEN upperband ELSE Max2(lowerband, fl0)
      trend1 == IF st.trend = 1 /\ c < fl1 THEN -1
                ELSE IF st.trend = -1 /\ c > fu1 THEN 1
                ELSE st.trend
  IN [trend |-> trend1, upper |-> Some(fu1), lower |-> Some(fl1)]

SupertrendUpdate(h, st, atr_len, atr_mult) ==
  IF Len(h) < atr_len + 1 THEN st
  ELSE Then(<<(h[Len(h)].high + h[Len(h)].low + h[Len(h)].close) * atr_len,
              atr_mult * 3 * RollingAtr(h, atr_len).num>>,
            LAMBDA b : SupertrendBands(st, h[Len(h)].close * 3 * atr_len,
                                       b[1] + b[2], b[1] - b[2]))

\* delta.where(delta > 0, 0) and -delta.where(delta < 0, 0); row 1 has no
\* predecessor (diff is NaN there) and contributes 0 to both
GainAt(x, i) == IF i >= 2 /\ x[i] > x[i - 1] THEN x[i] - x[i - 1] ELSE 0
LossAt(x, i) == IF i >= 2 /\ x[i] < x[i - 1] THEN x[i - 1] - x[i] ELSE 0

RECURSIVE SumGain(_, _, _)
SumGain(x, from, to) ==
  IF from > to THEN 0 ELSE GainAt(x, from) + SumGain(x, from + 1, to)

RECURSIVE SumLoss(_, _, _)
SumLoss(x, from, to) ==
  IF from > to THEN 0 ELSE LossAt(x, from) + SumLoss(x, from + 1, to)

\* strategy.py: rs = gain / loss if (loss != 0).all() else inf
\* (the incomplete leading windows are NaN, and NaN != 0)
RsiStrategyOf(x, n) ==
  IF \A j \in n..Len(x) : SumLoss(x, j - n + 1, j) # 0
  THEN Num(100 * SumGain(x, Len(x) - n + 1, Len(x)),
           SumGain(x, Len(x) - n + 1, Len(x)) + SumLoss(x, Len(x) - n + 1, Len(x)))
  ELSE Num(100, 1)

RsiStrategy(h, n) ==
  Then(LastN(Closes(h), 2 * n), LAMBDA x : RsiStrategyOf(x, n))

_calculate_rsi_latest(h) ==
  IF Len(h) < cfg.rsi_length + 1 THEN NaN ELSE RsiStrategy(h, cfg.rsi_length)

\* mutant: an infinite rs is replaced by 1
RsiRefactoredOf_midpoint(g, l) ==
  IF l = 0 THEN (IF g = 0 THEN NaN ELSE Num(50, 1))
  ELSE Num(100 * g, g + l)

\* indicators.py: rs = gain / loss; rs.replace([inf, -inf], 0)
RsiRefactoredOf(g, l) ==
  IF l = 0 THEN (IF g = 0 THEN NaN ELSE Num(0, 1))
  ELSE Num(100 * g, g + l)

RsiRefactored(h, n) ==
  Then(LastN(Closes(h), 2 * n), LAMBDA x :
       RsiRefactoredOf(SumGain(x, Len(x) - n + 1, Len(x)),
                       SumLoss(x, Len(x) - n + 1, Len(x))))

\* series.ewm(span=period, adjust=False).mean(), evaluated in fixed point
\* with EmaScale units per point
RECURSIVE EwmMean(_, _, _)
EwmMean(x, i, period) ==
  IF i = 1 THEN x[1] * EmaScale
  ELSE ((period - 1) * EwmMean(x, i - 1, period) + 2 * x[i] * EmaScale)
         \div (period + 1)

EmaOfTail(h, period) ==
  Then(LastN(Closes(h), 2 * period),
       LAMBDA x : Num(EwmMean(x, Len(x), period), EmaScale))

_calculate_ema_latest(h, period) ==
  IF Len(h) < period THEN NaN ELSE EmaOfTail(h, period)

----------------------------------------------------------------------------
(* Session clock *)

DateOf(ts) == ts \div MinutesPerDay

\* (end_time - t).total_seconds() / 60, end_time on the tick's own date
TimeToEnd(ts) ==
  DateOf(ts) * MinutesPerDay + cfg.intraday_end_hour * 60 + cfg.intraday_end_min - ts

\* start_time <= ist_time <= end_time, on times of day
is_in_session(ts) ==
  IF ~cfg.is_intraday THEN TRUE
  ELSE /\ cfg.intraday_start_hour * 60 + cfg.intraday_start_min <= ts % MinutesPerDay
       /\ ts % MinutesPerDay <= cfg.intraday_end_hour * 60 + cfg.intraday_end_min

is_near_session_end(ts) ==
  IF ~cfg.is_intraday THEN FALSE
  ELSE 0 < TimeToEnd(ts) /\ TimeToEnd(ts) <= cfg.exit_before_close

\* mutant: entries are allowed until the session close itself
should_allow_new_entries_until_close(ts) ==
  IF ~cfg.is_intraday THEN TRUE
  ELSE TimeToEnd(ts) > 0

should_allow_new_entries(ts) ==
  IF ~cfg.is_intraday THEN TRUE
  ELSE TimeToEnd(ts) > cfg.exit_before_close + BlackoutMinutes

----------------------------------------------------------------------------
(* Bar aggregation *)

EmptyBar ==
  [open |-> None, high |-> None, low |-> None, close |-> None,
   volume |-> 0, timestamp |-> None]

EmptyDict == <<>>

\* mutant: later ticks move the low but never the high
_update_current_bar_data_high_kept(s, ts, price, volume) ==
  LET cb == s.current_bar_data
      started == IF IsNone(cb.open)
                 THEN [cb EXCEPT !.open = Some(price), !.high = Some(price),
                                 !.low = Some(price), !.timestamp = Some(ts)]
                 ELSE [cb EXCEPT !.low = Some(Min2(Val(cb.low), price))]
  IN [s EXCEPT !.current_bar_data =
        [started EXCEPT !.close = Some(price), !.volume = cb.volume + volume]]

_update_current_bar_data(s, ts, price, volume) ==
  LET cb == s.current_bar_data
      started == IF IsNone(cb.open)
                 THEN [cb EXCEPT !.open = Some(price), !.high = Some(price),
                                 !.low = Some(price), !.timestamp = Some(ts)]
                 ELSE [cb EXCEPT !.high = Some(Max2(Val(cb.high), price)),
                                 !.low = Some(Min2(Val(cb.low), price))]
  IN [s EXCEPT !.current_bar_data =
        [started EXCEPT !.close = Some(price), !.volume = cb.volume + volume]]

\* mutant: the forming bar is reset except for its volume
_close_and_add_bar_to_history_volume_carried(s, bar_timestamp) ==
  LET cb == s.current_bar_data
      completed == [open |-> Val(cb.open), high |-> Val(cb.high),
                    low |-> Val(cb.low), close |-> Val(cb.close),
                    volume |-> cb.volume, timestamp |-> bar_timestamp,
                    ind |-> <<>>]
      appended == Append(s.bar_history, completed)
      bounded == IF Len(appended) > max_bar_history_length
                 THEN SubSeq(appended, 2, Len(appended)) ELSE appended
  IN IF IsNone(cb.open) THEN s
     ELSE [s EXCEPT !.bar_history = bounded,
                    !.current_bar_data = [open |-> None, high |-> None,
                                          low |-> None, close |-> None,
                                          volume |-> cb.volume,
                                          timestamp |-> None]]

\* the closed bar: OHLCV and timestamp, plus the indicator keys written onto
\* it later (ind is the part of the bar's dict that holds them)
_close_and_add_bar_to_history(s, bar_timestamp) ==
  LET cb == s.current_bar_data
      completed == [open |-> Val(cb.open), high |-> Val(cb.high),
                    low |-> Val(cb.low), close |-> Val(cb.close),
                    volume |-> cb.volume, timestamp |-> bar_timestamp,
                    ind |-> EmptyDict]
      appended == Append(s.bar_history, completed)
      bounded == IF Len(appended) > max_bar_history_length
                 THEN SubSeq(appended, 2, Len(appended)) ELSE appended
  IN IF IsNone(cb.open) THEN s
     ELSE [s EXCEPT !.bar_history = bounded, !.current_bar_data = EmptyBar]

SetLatestInd(s, d) ==
  [s EXCEPT !.bar_history[Len(s.bar_history)].ind = d]

SupertrendState(s) ==
  [trend |-> s.supertrend_trend, upper |-> s.supertrend_final_upperband,
   lower |-> s.supertrend_final_lowerband]

WithSupertrend(s, st) ==
  [s EXCEPT !.supertrend_trend = st.trend,
            !.supertrend_final_upperband = st.upper,
            !.supertrend_final_lowerband = st.lower]

\* strategy.py: every enabled indicator is written once the history holds
\* min_bars_for_signals bars; a not-ready one writes NaN (RSI, EMA) or the
\* retained trend flag (Supertrend)
StrategyKeys ==
  (IF cfg.use_supertrend THEN {"supertrend"} ELSE {})
    \cup (IF cfg.use_rsi_filter THEN {"rsi"} ELSE {})
    \cup (IF cfg.use_ema_crossover THEN {"ema_fast", "ema_slow", "ema_bull"} ELSE {})
    \cup {"htf_trend", "htf_bullish"}

StrategyValue(h, st, k) ==
  CASE k = "supertrend" -> st.trend
    [] k = "rsi" -> _calculate_rsi_latest(h)
    [] k = "ema_fast" -> _calculate_ema_latest(h, cfg.fast_ema)
    [] k = "ema_slow" -> _calculate_ema_latest(h, cfg.slow_ema)
    [] k = "ema_bull" -> Gt(_calculate_ema_latest(h, cfg.fast_ema),
                            _calculate_ema_latest(h, cfg.slow_ema))
    [] k = "htf_trend" -> _calculate_ema_latest(h, HtfPeriod)
    [] k = "htf_bullish" -> Gt(Num(h[Len(h)].close, 1),
                               _calculate_ema_latest(h, HtfPeriod))

_update_indicators_on_history(s) ==
  IF Len(s.bar_history) < min_bars_for_signals THEN s
  ELSE Then(SupertrendUpdate(s.bar_history, SupertrendState(s), cfg.atr_len, cfg.atr_mult),
            LAMBDA st :
              SetLatestInd(IF cfg.use_supertrend THEN WithSupertrend(s, st) ELSE s,
                           [k \in StrategyKeys |-> StrategyValue(s.bar_history, st, k)]))

\* indicator_manager.py: each constructed bar indicator writes its key only
\* when can_calculate (len(bar_history) >= min_bars_required) holds
RefactoredKeys(n) ==
  (IF cfg.use_supertrend /\ n >= cfg.atr_len + 1 THEN {"supertrend"} ELSE {})
    \cup (IF cfg.use_ema_crossover /\ n >= cfg.fast_ema THEN {"ema_fast"} ELSE {})
    \cup (IF cfg.use_ema_crossover /\ n >= cfg.slow_ema THEN {"ema_slow"} ELSE {})
    \cup (IF cfg.use_rsi_filter /\ n >= cfg.rsi_length + 1 THEN {"rsi"} ELSE {})
    \cup (IF n >= HtfPeriod THEN {"htf_trend"} ELSE {})
    \cup (IF n >= cfg.atr_len + 1 THEN {"atr"} ELSE {})

RefactoredValue(h, st, k) ==
  CASE k = "supertrend" -> st.trend
    [] k = "ema_fast" -> EmaOfTail(h, cfg.fast_ema)
    [] k = "ema_slow" -> EmaOfTail(h, cfg.slow_ema)
    [] k = "rsi" -> RsiRefactored(h, cfg.rsi_length)
    [] k = "htf_trend" -> EmaOfTail(h, HtfPeriod)
    [] k = "atr" -> RollingAtr(h, cfg.atr_len)

_calculate_bar_indicators(s) ==
  IF Len(s.bar_history) = 0 THEN s
  ELSE Then(SupertrendUpdate(s.bar_history, SupertrendState(s), cfg.atr_len, cfg.atr_mult),
            LAMBDA st :
              SetLatestInd(IF cfg.use_supertrend THEN WithSupertrend(s, st) ELSE s,
                           [k \in RefactoredKeys(Len(s.bar_history)) |->
                              RefactoredValue(s.bar_history, st, k)]))

close_current_bar(s, bar_timestamp) ==
  IF IsNone(s.current_bar_data.open) THEN s
  ELSE Then(_close_and_add_bar_to_history(s, bar_timestamp),
            LAMBDA c : _calculate_bar_indicators(c))

----------------------------------------------------------------------------
(* Session VWAP, per tick *)

\* mutant: the sums run on across the day boundary
_calculate_vwap_latest_never_reset(s, price, volume, ts) ==
  LET tpv == s.daily_vwap_sum_tpv + price * volume
      vol == s.daily_vwap_sum_volume + volume
      vwap == IF vol > 0 THEN Num(tpv, vol) ELSE NaN
  IN [s EXCEPT !.daily_vwap_sum_tpv = tpv, !.daily_vwap_sum_volume = vol,
               !.last_vwap_day = Some(DateOf(ts)),
               !.current_vwap = vwap,
               !.current_vwap_bull = Gt(Num(price, 1), vwap)]

\* strategy.py: the day-boundary reset also clears the Supertrend bands
_calculate_vwap_latest(s, price, volume, ts) ==
  LET newday == IsNone(s.last_vwap_day) \/ Val(s.last_vwap_day) # DateOf(ts)
      tpv0 == IF newday THEN 0 ELSE s.daily_vwap_sum_tpv
      vol0 == IF newday THEN 0 ELSE s.daily_vwap_sum_volume
      tpv == tpv0 + price * volume
      vol == vol0 + volume
      vwap == IF vol > 0 THEN Num(tpv, vol) ELSE NaN
  IN [s EXCEPT !.daily_vwap_sum_tpv = tpv, !.daily_vwap_sum_volume = vol,
               !.last_vwap_day = Some(DateOf(ts)),
               !.supertrend_final_upperband =
                  IF newday /\ run.variant = "strategy" THEN None ELSE @,
               !.supertrend_final_lowerband =
                  IF newday /\ run.variant = "strategy" THEN None ELSE @,
               !.current_vwap = vwap,
               !.current_vwap_bull = Gt(Num(price, 1), vwap)]

\* indicator_manager.py: the VWAP indicator exists only when use_vwap is set
update_tick_indicators(s, price, volume, ts) ==
  IF cfg.use_vwap THEN _calculate_vwap_latest(s, price, volume, ts)
  ELSE [s EXCEPT !.current_vwap = NaN, !.current_vwap_bull = FALSE]

----------------------------------------------------------------------------
(* Position and risk state machine *)

\* the latest closed bar's dict as read by the entry logic
\* (strategy.py: _bar_history_list[-1].copy(), or {} when there is none)
LatestBarRow(s) ==
  IF Len(s.bar_history) = 0 THEN EmptyDict
  ELSE s.bar_history[Len(s.bar_history)].ind

\* strategy_refactored.py: get_latest_bar_data() plus the derived flags
\* vwap_bull, ema_bull and htf_bullish added by on_tick
get_latest_bar_data(s) ==
  LET row == LatestBarRow(s)
      d1 == Put(row, "vwap_bull", s.current_vwap_bull)
      d2 == IF "ema_fast" \in DOMAIN d1 /\ "ema_slow" \in DOMAIN d1
            THEN Put(d1, "ema_bull", Gt(d1["ema_fast"], d1["ema_slow"])) ELSE d1
      close == s.bar_history[Len(s.bar_history)].close
      d3 == IF "htf_trend" \in DOMAIN d2
            THEN Put(d2, "htf_bullish", Gt(Num(close, 1), d2["htf_trend"])) ELSE d2
  IN IF Len(s.bar_history) = 0 THEN Put(EmptyDict, "vwap_bull", s.current_vwap_bull)
     ELSE d3

CurrentBarRow(s) ==
  IF run.variant = "refactored" THEN get_latest_bar_data(s) ELSE LatestBarRow(s)

_check_reentry_momentum(h) ==
  LET n == cfg.reentry_momentum_lookback
      lookback == LastN(h, n)
      green == Cardinality({i \in 1..Len(lookback) :
                              lookback[i].close > lookback[i].open})
  IN IF Len(h) < n + 1 THEN FALSE
     ELSE /\ lookback[Len(lookback)].close > lookback[1].close
          /\ green >= cfg.reentry_min_green_candles

\* mutant: the same-day block after a time exit is dropped
can_reenter_ignoring_time_exit(s, current_price, ts, row) ==
  LET vwap_bull == IF run.variant = "refactored"
                   THEN Get(row, "vwap_bull", FALSE) ELSE s.current_vwap_bull
      indicator_bullish_check ==
        \/ cfg.use_vwap /\ vwap_bull
        \/ cfg.use_supertrend /\ Get(row, "supertrend", 0) = 1
  IN IF IsNone(s.last_exit_price) THEN TRUE
     ELSE IF ~IsNone(s.last_entry_price)
     THEN /\ current_price > Val(s.last_entry_price) + cfg.reentry_price_buffer
          /\ ~(cfg.use_ema_crossover /\ ~Get(row, "ema_bull", FALSE))
          /\ indicator_bullish_check
          /\ _check_reentry_momentum(s.bar_history)
     ELSE FALSE

can_reenter(s, current_price, ts, row) ==
  LET vwap_bull == IF run.variant = "refactored"
                   THEN Get(row, "vwap_bull", FALSE) ELSE s.current_vwap_bull
      indicator_bullish_check ==
        \/ cfg.use_vwap /\ vwap_bull
        \/ cfg.use_supertrend /\ Get(row, "supertrend", 0) = 1
  IN IF IsNone(s.last_exit_price) THEN TRUE
     ELSE IF s.last_exit_reason = "time" /\ s.last_time_exit_date = Some(DateOf(ts))
     THEN FALSE
     ELSE IF ~IsNone(s.last_entry_price)
     THEN /\ current_price > Val(s.last_entry_price) + cfg.reentry_price_buffer
          /\ ~(cfg.use_ema_crossover /\ ~Get(row, "ema_bull", FALSE))
          /\ indicator_bullish_check
          /\ _check_reentry_momentum(s.bar_history)
     ELSE FALSE

\* int(current_equity * (risk_per_trade_percent / 100) / base_sl_points),
\* 1 when that is 0; current_equity is in 1/SizeScale units
EntrySize(s) ==
  LET n == PyInt(s.current_equity * cfg.risk_per_trade_percent,
                 100 * SizeScale * cfg.base_sl_points)
  IN IF n = 0 THEN 1 ELSE n

Entered(s, price, ts) ==
  [s EXCEPT !.position_size = EntrySize(s) * SizeScale,
            !.position_entry_price = price,
            !.position_entry_time = Some(ts),
            !.position_high_price = price,
            !.base_stop_price = price - cfg.base_sl_points,
            !.trail_stop_price = 0,
            !.trailing_active = FALSE,
            !.tp1_filled = 0,
            !.tp2_filled = 0,
            !.action_logs = Append(@, <<"ENTRY", ts, price,
                                       EntrySize(s) * SizeScale,
                                       price - cfg.base_sl_points,
                                       "Buy Signal">>)]

\* mutant: the position_size == 0 guard is dropped
enter_position_unguarded(s, price, ts) == Entered(s, price, ts)

enter_position(s, price, ts) ==
  IF s.position_size = 0 THEN Entered(s, price, ts) ELSE s

\* mutant: the trail follows the current price instead of ratcheting
update_trailing_stop_follow_price(s, current_price) ==
  IF ~cfg.use_trail_stop \/ s.position_size <= 0 THEN s
  ELSE
    LET high == Max2(s.position_high_price, current_price)
        profit_points == current_price - s.position_entry_price
        s1 == [s EXCEPT !.position_high_price = high]
    IN IF ~s.trailing_active /\ profit_points >= cfg.trail_activation_points
       THEN [s1 EXCEPT !.trailing_active = TRUE,
                       !.trail_stop_price = high - cfg.trail_distance_points]
       ELSE IF s.trailing_active
       THEN [s1 EXCEPT !.trail_stop_price = current_price - cfg.trail_distance_points]
       ELSE s1

update_trailing_stop(s, current_price) ==
  IF ~cfg.use_trail_stop \/ s.position_size <= 0 THEN s
  ELSE
    LET high == Max2(s.position_high_price, current_price)
        profit_points == current_price - s.position_entry_price
        new_trail_stop == high - cfg.trail_distance_points
        s1 == [s EXCEPT !.position_high_price = high]
    IN IF ~s.trailing_active /\ profit_points >= cfg.trail_activation_points
       THEN [s1 EXCEPT !.trailing_active = TRUE, !.trail_stop_price = new_trail_stop]
       ELSE IF s.trailing_active /\ new_trail_stop > s.trail_stop_price
       THEN [s1 EXCEPT !.trail_stop_price = new_trail_stop]
       ELSE s1

\* mutant: an active trail replaces the base stop instead of being floored by it
get_effective_stop_price_trail_only(s) ==
  IF ~s.trailing_active \/ s.trail_stop_price <= 0 THEN s.base_stop_price
  ELSE s.trail_stop_price

get_effective_stop_price(s) ==
  IF ~s.trailing_active \/ s.trail_stop_price <= 0 THEN s.base_stop_price
  ELSE Max2(s.base_stop_price, s.trail_stop_price)

\* <<hit, reason>>
check_stop_loss_hit(s, current_price) ==
  IF current_price <= get_effective_stop_price(s)
  THEN <<TRUE, IF s.trailing_active /\ s.trail_stop_price > s.base_stop_price
               THEN "Trail Stop Loss" ELSE "Base Stop Loss">>
  ELSE <<FALSE, "">>

\* mutant: the take-profit marks survive the reset
_reset_position_state_marks_kept(s) ==
  [s EXCEPT !.position_size = 0, !.position_entry_time = None,
            !.position_high_price = 0, !.base_stop_price = 0,
            !.trail_stop_price = 0, !.trailing_active = FALSE]

_reset_position_state(s) ==
  [s EXCEPT !.position_size = 0, !.position_entry_time = None,
            !.position_high_price = 0, !.base_stop_price = 0,
            !.trail_stop_price = 0, !.trailing_active = FALSE,
            !.tp1_filled = 0, !.tp2_filled = 0]

\* exit_qty = position_size * (qty_percent / 100), capped at position_size
ExitQty(position_size, qty_percent) ==
  Min2((position_size * qty_percent) \div 100, position_size)

\* the fill of exit_position: equity, size, log line, trade and equity point
Filled(s, price, ts, qty_percent, reason, exit_qty, pnl) ==
  [s EXCEPT !.current_equity = @ + pnl,
            !.position_size = @ - exit_qty,
            !.action_logs = Append(@, <<"EXIT", ts, price, qty_percent, pnl, reason>>),
            !.trades = Append(@, [entry_time |-> s.position_entry_time,
                                  exit_time |-> ts,
                                  entry_price |-> s.position_entry_price,
                                  exit_price |-> price,
                                  quantity |-> exit_qty, pnl |-> pnl,
                                  reason |-> reason]),
            !.equity_curve = Append(@, [timestamp |-> Some(ts),
                                        equity |-> s.current_equity + pnl])]

\* the re-entry memory written by a full exit, then _reset_position_state;
\* exit_classification "" stands for None (both are falsy)
Closed(s, price, entry_price, exit_classification) ==
  _reset_position_state(
    [s EXCEPT !.last_exit_price = Some(price),
              !.last_entry_price = Some(entry_price),
              !.last_exit_reason =
                 IF exit_classification # "" THEN exit_classification ELSE @])

\* position_size <= 1e-9 is position_size <= 0 at 1/SizeScale resolution
exit_position(s, price, ts, qty_percent, reason, exit_classification) ==
  IF s.position_size > 0
  THEN Then(Filled(s, price, ts, qty_percent, reason,
                   ExitQty(s.position_size, qty_percent),
                   (price - s.position_entry_price) * ExitQty(s.position_size, qty_percent)),
            LAMBDA s1 :
              IF s1.position_size <= 0
              THEN Closed(s1, price, s.position_entry_price, exit_classification)
              ELSE s1)
  ELSE s

StopReasonText(stop_reason) ==
  IF stop_reason = "Trail Stop Loss" THEN "MANDATORY: Trail Stop Loss"
  ELSE "MANDATORY: Base Stop Loss"

\* --- ENTRY LOGIC --- of on_tick
BuySignal(s, row) ==
  /\ ~(cfg.use_supertrend /\ Get(row, "supertrend", 0) # 1)
  /\ ~(cfg.use_vwap /\ ~s.current_vwap_bull)
  /\ ~(cfg.use_ema_crossover /\ ~Get(row, "ema_bull", FALSE))
  /\ ~(cfg.use_rsi_filter /\
       ~LET rsi == Get(row, "rsi", Num(RsiDefault, 1))
        IN Gt(rsi, Num(cfg.rsi_oversold, 1)) /\ Lt(rsi, Num(cfg.rsi_overbought, 1)))
  /\ Get(row, "htf_bullish", FALSE)

has_enough_history(s) == Len(s.bar_history) >= min_bars_for_signals

\* mutant: the re-entry gate is not consulted
EntryLogic_ungated(s, ts, price) ==
  IF /\ s.position_size = 0
     /\ should_allow_new_entries(ts)
     /\ has_enough_history(s)
     /\ BuySignal(s, CurrentBarRow(s))
  THEN enter_position(s, price, ts)
  ELSE s

EntryLogic(s, ts, price) ==
  IF /\ s.position_size = 0
     /\ should_allow_new_entries(ts)
     /\ has_enough_history(s)
     /\ BuySignal(s, CurrentBarRow(s))
     /\ can_reenter(s, price, ts, CurrentBarRow(s))
  THEN enter_position(s, price, ts)
  ELSE s

\* mutant: the first tier is not marked as filled
TakeProfit1_unmarked(s, ts, price, entry_price) ==
  IF s.tp1_filled = 0 /\ price >= entry_price + cfg.tp1_points
  THEN exit_position(s, price, ts, Tp1Percent, "TP1-Quick", "")
  ELSE s

\* the tiered take-profit block of on_tick; entry_price is read once, before
\* the first tier
TakeProfit1(s, ts, price, entry_price) ==
  IF s.tp1_filled = 0 /\ price >= entry_price + cfg.tp1_points
  THEN [exit_position(s, price, ts, Tp1Percent, "TP1-Quick", "")
          EXCEPT !.tp1_filled = 1]
  ELSE s

TakeProfit2(s, ts, price, entry_price) ==
  IF /\ s.tp2_filled = 0 /\ s.tp1_filled > 0 /\ s.position_size > 0
     /\ price >= entry_price + cfg.tp2_points
  THEN [exit_position(s, price, ts, Tp2Percent, "TP2-Medium", "")
          EXCEPT !.tp2_filled = 1]
  ELSE s

TakeProfit3(s, ts, price, entry_price) ==
  IF /\ s.tp2_filled > 0 /\ s.position_size > 0
     /\ price >= entry_price + cfg.tp3_points
  THEN exit_position(s, price, ts, FullPercent, "TP3-Runner", "profit")
  ELSE s

TieredTakeProfit(s, ts, price) ==
  Then(TakeProfit1(s, ts, price, s.position_entry_price), LAMBDA a :
  Then(TakeProfit2(a, ts, price, s.position_entry_price), LAMBDA b :
       TakeProfit3(b, ts, price, s.position_entry_price)))

\* mutant: the take-profit tiers are looked at before the stop
StopOrTakeProfit_tiers_first(s, ts, price) ==
  Then(IF cfg.use_tiered_tp THEN TieredTakeProfit(s, ts, price) ELSE s, LAMBDA s1 :
       IF check_stop_loss_hit(s1, price)[1]
       THEN exit_position(s1, price, ts, FullPercent,
                          StopReasonText(check_stop_loss_hit(s1, price)[2]),
                          check_stop_loss_hit(s1, price)[2])
       ELSE s1)

StopOrTakeProfit(s, ts, price) ==
  Then(check_stop_loss_hit(s, price), LAMBDA stop :
       IF stop[1]
       THEN exit_position(s, price, ts, FullPercent, StopReasonText(stop[2]), stop[2])
       ELSE IF cfg.use_tiered_tp THEN TieredTakeProfit(s, ts, price) ELSE s)

\* mutant: the stops and take-profits are looked at before the session end
PositionManagement_stops_first(s, ts, price) ==
  IF s.position_size > 0
  THEN
    Then(StopOrTakeProfit(update_trailing_stop(s, price), ts, price), LAMBDA s1 :
         IF is_near_session_end(ts)
         THEN [exit_position(s1, price, ts, FullPercent, "MANDATORY: Session End", "time")
                 EXCEPT !.last_time_exit_date = Some(DateOf(ts))]
         ELSE s1)
  ELSE s

\* --- POSITION MANAGEMENT --- of on_tick
PositionManagement(s, ts, price) ==
  IF s.position_size > 0
  THEN
    IF is_near_session_end(ts)
    THEN [exit_position(s, price, ts, FullPercent, "MANDATORY: Session End", "time")
            EXCEPT !.last_time_exit_date = Some(DateOf(ts))]
    ELSE Then(update_trailing_stop(s, price), LAMBDA s1 : StopOrTakeProfit(s1, ts, price))
  ELSE s

\* mutant: the closed bar is stamped with the minute after the last-seen one
CloseBar_next_minute(s, lpm) ==
  IF run.variant = "refactored" THEN close_current_bar(s, lpm + 1)
  ELSE Then(_close_and_add_bar_to_history(s, lpm + 1),
            LAMBDA c : _update_indicators_on_history(c))

\* bar aggregation at the head of on_tick
CloseBar(s, lpm) ==
  IF run.variant = "refactored" THEN close_current_bar(s, lpm)
  ELSE Then(_close_and_add_bar_to_history(s, lpm),
            LAMBDA c : _update_indicators_on_history(c))

\* mutant: any change of minute, also backward, closes the forming bar
Aggregate_minute_changed(s, ts, price, volume) ==
  Then(IF IsNone(s.last_processed_minute) THEN Some(ts) ELSE s.last_processed_minute,
       LAMBDA first :
         Then(IF ts # Val(first)
              THEN [CloseBar(s, Val(first)) EXCEPT !.last_processed_minute = Some(ts)]
              ELSE [s EXCEPT !.last_processed_minute = first],
              LAMBDA s1 : _update_current_bar_data(s1, ts, price, volume)))

Aggregate(s, ts, price, volume) ==
  Then(IF IsNone(s.last_processed_minute) THEN Some(ts) ELSE s.last_processed_minute,
       LAMBDA first :
         Then(IF ts > Val(first)
              THEN [CloseBar(s, Val(first)) EXCEPT !.last_processed_minute = Some(ts)]
              ELSE [s EXCEPT !.last_processed_minute = first],
              LAMBDA s1 : _update_current_bar_data(s1, ts, price, volume)))

\* mutant: the tick's price is also written onto the latest closed bar
TickIndicators_onto_history(s, ts, price, volume) ==
  Then(IF run.variant = "refactored" THEN update_tick_indicators(s, price, volume, ts)
       ELSE _calculate_vwap_latest(s, price, volume, ts),
       LAMBDA s1 :
         IF Len(s1.bar_history) = 0 THEN s1
         ELSE [s1 EXCEPT !.bar_history[Len(s1.bar_history)].close = price])

TickIndicators(s, ts, price, volume) ==
  IF run.variant = "refactored" THEN update_tick_indicators(s, price, volume, ts)
  ELSE _calculate_vwap_latest(s, price, volume, ts)

on_tick(s, ts, price, volume) ==
  Then(Aggregate(s, ts, price, volume), LAMBDA s2 :
  Then(TickIndicators(s2, ts, price, volume), LAMBDA s3 :
  Then(EntryLogic(s3, ts, price), LAMBDA s4 :
       PositionManagement(s4, ts, price))))

----------------------------------------------------------------------------
(* Results *)

RECURSIVE SumPnlWhere(_, _, _)
\* trades_df[trades_df['pnl'] > 0]['pnl'].sum() (sign 1) and the sum of the
\* negative pnl (sign -1)
SumPnlWhere(trades, n, sign) ==
  IF n = 0 THEN 0
  ELSE (IF trades[n].pnl * sign > 0 THEN trades[n].pnl ELSE 0)
         + SumPnlWhere(trades, n - 1, sign)

\* equity_df['equity'].cummax() at row i
HighWaterMark(curve, i) == MaxOfSet({curve[j].equity : j \in 1..i})

\* ((high_water_mark - equity) / high_water_mark).max() * 100, in whole
\* percent (the high-water mark is at least the first equity point)
MaxDrawdown(curve) ==
  MaxOfSet({(100 * (HighWaterMark(curve, i) - curve[i].equity))
              \div HighWaterMark(curve, i) : i \in 1..Len(curve)})

Summary(s) ==
  [kind |-> "summary",
   total_trades |-> Len(s.trades),
   win_rate |-> Num(100 * Cardinality({i \in 1..Len(s.trades) : s.trades[i].pnl > 0}),
                    Len(s.trades)),
   total_pnl |-> SumPnlWhere(s.trades, Len(s.trades), 1)
                   + SumPnlWhere(s.trades, Len(s.trades), -1),
   profit_factor |->
     IF Abs(SumPnlWhere(s.trades, Len(s.trades), -1)) > 0
     THEN [inf |-> FALSE, num |-> SumPnlWhere(s.trades, Len(s.trades), 1),
           den |-> Abs(SumPnlWhere(s.trades, Len(s.trades), -1))]
     ELSE [inf |-> TRUE, num |-> 0, den |-> 1],
   max_drawdown |-> MaxDrawdown(s.equity_curve),
   total_return |-> Num(100 * (s.current_equity - cfg.initial_capital * SizeScale),
                        cfg.initial_capital * SizeScale),
   final_equity |-> s.current_equity]

\* mutant: the no-trades outcome is decided on the action log, which also
\* holds ENTRY lines
generate_results_by_action_log(s) ==
  IF Len(s.action_logs) = 0 THEN [kind |-> "no_trades", error |-> "No trades executed"]
  ELSE IF cfg.initial_capital = 0 THEN [kind |-> "raised", error |-> "ZeroDivisionError"]
  ELSE Summary(s)

\* the division by initial_capital is the one statement that can raise
generate_results(s) ==
  IF Len(s.trades) = 0 THEN [kind |-> "no_trades", error |-> "No trades executed"]
  ELSE IF cfg.initial_capital = 0 THEN [kind |-> "raised", error |-> "ZeroDivisionError"]
  ELSE Summary(s)

----------------------------------------------------------------------------
(* Construction *)

\* __init__: current_equity and the first equity point are taken from
\* self.initial_capital before the params loop overrides it
ConstructedEquity == Defaults.initial_capital * SizeScale

NewStrategy ==
  [ position_size |-> 0, position_entry_price |-> 0, position_entry_time |-> None,
    position_high_price |-> 0, base_stop_price |-> 0, trail_stop_price |-> 0,
    trailing_active |-> FALSE, tp1_filled |-> 0, tp2_filled |-> 0,
    last_exit_price |-> None, last_entry_price |-> None, last_exit_reason |-> "",
    last_time_exit_date |-> None,
    trades |-> <<>>,
    equity_curve |-> <<[timestamp |-> None, equity |-> ConstructedEquity]>>,
    current_equity |-> ConstructedEquity,
    action_logs |-> <<>>,
    bar_history |-> <<>>, current_bar_data |-> EmptyBar,
    last_processed_minute |-> None,
    daily_vwap_sum_tpv |-> 0, daily_vwap_sum_volume |-> 0, last_vwap_day |-> None,
    current_vwap |-> NaN, current_vwap_bull |-> FALSE,
    supertrend_trend |-> 1, supertrend_final_upperband |-> None,
    supertrend_final_lowerband |-> None ]

----------------------------------------------------------------------------
(* The feed: a fixed warm-up tape, then free ticks *)

StartMinute == 555
BasePrice == 100
CloseMinute == Defaults.intraday_end_hour * 60 + Defaults.intraday_end_min

\* Runs explored: engine variant, constructor params, the values the free
\* ticks are drawn from (prices, minutes a tick may jump to, volume), and
\* whether the engine runs under the live bot with its status monitor.
SmallPoints ==
  [base_sl_points |-> 2, trail_activation_points |-> 2, trail_distance_points |-> 1,
   tp1_points |-> 2, tp2_points |-> 4, tp3_points |-> 8, reentry_price_buffer |-> 1]

Runs ==
  { [variant |-> "strategy", params |-> SmallPoints,
     prices |-> {110, 112, 114, 116, 120}, jumps |-> {}, volume |-> 1, live |-> FALSE],
    [variant |-> "strategy",
     params |-> [initial_capital |-> 200000, reentry_price_buffer |-> 1],
     prices |-> {112, 114},
     jumps |-> {StartMinute, CloseMinute - Defaults.exit_before_close, CloseMinute,
                StartMinute + MinutesPerDay},
     volume |-> 1, live |-> FALSE],
    [variant |-> "strategy",
     params |-> [is_intraday |-> FALSE, reentry_price_buffer |-> 1],
     prices |-> {112, 114},
     jumps |-> {CloseMinute - Defaults.exit_before_close}, volume |-> 1, live |-> FALSE],
    [variant |-> "strategy",
     params |-> [base_sl_points |-> 1, reentry_price_buffer |-> 1],
     prices |-> {0, 112, 114}, jumps |-> {}, volume |-> 1, live |-> FALSE],
    [variant |-> "refactored", params |-> [rsi_length |-> 22],
     prices |-> {112, 114}, jumps |-> {}, volume |-> 1, live |-> FALSE],
    [variant |-> "refactored",
     params |-> [base_sl_points |-> 2, trail_activation_points |-> 2,
                 trail_distance_points |-> 6, tp1_points |-> 4, tp2_points |-> 6,
                 tp3_points |-> 8, reentry_price_buffer |-> 1],
     prices |-> {108, 112, 114, 116, 120}, jumps |-> {}, volume |-> 1, live |-> FALSE],
    [variant |-> "refactored", params |-> EmptyDict,
     prices |-> {112}, jumps |-> {}, volume |-> 0, live |-> FALSE],
    \* take-profit levels out of order
    [variant |-> "strategy",
     params |-> [base_sl_points |-> 2, tp1_points |-> 4, tp2_points |-> 2,
                 tp3_points |-> 8],
     prices |-> {112, 116}, jumps |-> {}, volume |-> 1, live |-> FALSE],
    \* a supplied history bound, and ticks of volume 3
    [variant |-> "strategy", params |-> [max_bar_history_length |-> 5],
     prices |-> {112}, jumps |-> {}, volume |-> 3, live |-> FALSE],
    \* a negative price on the feed
    [variant |-> "strategy", params |-> [reentry_price_buffer |-> 1],
     prices |-> {-1, 112}, jumps |-> {}, volume |-> 1, live |-> FALSE],
    \* short RSI windows: rising, flat and falling closes
    [variant |-> "refactored", params |-> [rsi_length |-> 2],
     prices |-> {110, 112}, jumps |-> {}, volume |-> 1, live |-> FALSE],
    [variant |-> "strategy", params |-> [rsi_length |-> 2],
     prices |-> {110, 112}, jumps |-> {}, volume |-> 1, live |-> FALSE],
    \* a jump into the session-end window with the stop and a take-profit
    \* level within reach
    [variant |-> "strategy", params |-> SmallPoints,
     prices |-> {110, 112, 114},
     jumps |-> {CloseMinute - Defaults.exit_before_close}, volume |-> 1,
     live |-> FALSE],
    \* a trail that sits at the high itself, take-profit at the activation
    [variant |-> "strategy",
     params |-> [base_sl_points |-> 2, trail_activation_points |-> 2,
                 trail_distance_points |-> 0, tp1_points |-> 2, tp2_points |-> 4,
                 tp3_points |-> 8, reentry_price_buffer |-> 1],
     prices |-> {112, 114}, jumps |-> {}, volume |-> 1, live |-> FALSE],
    \* a session configured to start at 10:00, fed from 09:15
    [variant |-> "strategy", params |-> [intraday_start_hour |-> 10, intraday_start_min |-> 0],
     prices |-> {112}, jumps |-> {}, volume |-> 1, live |-> FALSE],
    \* a period longer than the IndicatorManager's history
    [variant |-> "refactored", params |-> [reentry_momentum_lookback |-> 101],
     prices |-> {112}, jumps |-> {}, volume |-> 1, live |-> FALSE],
    \* the VWAP and Supertrend filters both switched off
    [variant |-> "strategy",
     params |-> [use_vwap |-> FALSE, use_supertrend |-> FALSE,
                 base_sl_points |-> 2, reentry_price_buffer |-> 1],
     prices |-> {110, 112, 114}, jumps |-> {}, volume |-> 1, live |-> FALSE],
    \* the live bot: ticks arrive on the feed thread while the main thread
    \* logs the status
    [variant |-> "strategy", params |-> SmallPoints,
     prices |-> {110, 112}, jumps |-> {}, volume |-> 1, live |-> TRUE] }

\* the tape: two ticks (open, close) in each of the first min_bars_for_signals
\* minutes, closes zig-zagging upward
TapeLen == 2 * min_bars_for_signals
TapeClose(k) == BasePrice + (k \div 2) + 2 * (k % 2)
TapeOpen(k) == IF k = 0 THEN BasePrice ELSE TapeClose(k - 1)
TapeTick(i) ==
  [timestamp |-> StartMinute + (i \div 2),
   price |-> IF i % 2 = 0 THEN TapeOpen(i \div 2) ELSE TapeClose(i \div 2),
   volume |-> run.volume]

FreeTicks ==
  { [timestamp |-> ts, price |-> p, volume |-> run.volume] :
      ts \in {tick.timestamp, tick.timestamp + 1} \cup run.jumps, p \in run.prices }

NextTicks ==
  IF nticks < TapeLen THEN {TapeTick(nticks)}
  ELSE IF nticks < TapeLen + MaxFreeTicks THEN FreeTicks
  ELSE {}

----------------------------------------------------------------------------
(* Status panel: visual_price_tick_indicator.parse_live_trader_log reads   *)
(* the bot's log and the tick log.  A log line is a record [format, time,  *)
(* msg]: the shape of its bracketed prefix, the second it was written and  *)
(* the text the parser looks for in it.                                    *)

\* lines = f.readlines()[-200:]
LogTail == 200

\* (current_time - last_tick_time) <= 120
RecentSeconds == 120

EventTexts == {"WebSocket Connection Opened", "WebSocket Connection Closed"}

StatusTexts ==
  {"STATUS: In Position", "STATUS: Awaiting signal",
   "STATUS: Collecting initial bar data"}

\* datetime.strptime(line[line.find('[')+1:line.find(']')], '%y%m%d %H:%M:%S')
\* succeeds on a bare "[yymmdd HH:MM:SS]" prefix; on logzero's default
\* "[I yymmdd HH:MM:SS module:line]" it raises and the line is skipped
LogTime(line) == IF line.format = "bare" THEN Some(line.time) ELSE None

\* the loop that keeps the greatest parsed time of the lines holding `text`
LastEventTime(lines, text) ==
  LET times == {line.time : line \in {lines[i] : i \in
                  {j \in 1..Len(lines) : /\ lines[j].msg = text
                                         /\ ~IsNone(LogTime(lines[j]))}}}
  IN IF times = {} THEN None ELSE Some(MaxOfSet(times))

EventsConnected_same_second(lines) ==
  LET last_opened_time == LastEventTime(lines, "WebSocket Connection Opened")
      last_closed_time == LastEventTime(lines, "WebSocket Connection Closed")
  IN /\ ~IsNone(last_opened_time)
     /\ (IsNone(last_closed_time)
           \/ Val(last_opened_time) >= Val(last_closed_time))

\* websocket_connected after comparing last_opened_time and last_closed_time
EventsConnected(lines) ==
  LET last_opened_time == LastEventTime(lines, "WebSocket Connection Opened")
      last_closed_time == LastEventTime(lines, "WebSocket Connection Closed")
  IN /\ ~IsNone(last_opened_time)
     /\ (IsNone(last_closed_time)
           \/ Val(last_opened_time) > Val(last_closed_time))

\* last_tick_time and (current_time - last_tick_time) <= 120
RecentTick(last_tick_time, current_time) ==
  /\ ~IsNone(last_tick_time)
  /\ Val(last_tick_time) # 0
  /\ current_time - Val(last_tick_time) <= RecentSeconds

\* the status a STATUS line is reported as
StatusName(text) ==
  CASE text = "STATUS: In Position" -> "IN POSITION"
    [] text = "STATUS: Awaiting signal" -> "AWAITING SIGNAL"
    [] text = "STATUS: Collecting initial bar data" -> "COLLECTING DATA"

\* for line in reversed(lines): the newest STATUS line decides
LatestStatus(lines) ==
  LET at == {i \in 1..Len(lines) : lines[i].msg \in StatusTexts}
  IN IF at = {} THEN None ELSE Some(StatusName(lines[MaxOfSet(at)].msg))

\* the dict returned (None when nothing can be reported)
parse_live_trader_log(log, last_tick_time, current_time) ==
  LET lines == LastN(log, LogTail)
      websocket_connected ==
        EventsConnected(lines) \/ RecentTick(last_tick_time, current_time)
  IN IF ~websocket_connected
     THEN Some([status |-> "API DOWN", symbol |-> "Unknown",
                reason |-> IF \/ IsNone(last_tick_time)
                              \/ Val(last_tick_time) = 0
                              \/ current_time - Val(last_tick_time)
                                   > RecentSeconds
                           THEN "No Recent Data" ELSE "Connection Lost"])
     ELSE IF ~IsNone(LatestStatus(lines))
          THEN Some([status |-> Val(LatestStatus(lines))])
          ELSE IF RecentTick(last_tick_time, current_time)
               THEN Some([status |-> "AWAITING SIGNAL", symbol |-> "Unknown"])
               ELSE None

\* the log files as the bot has just created them; `returned` holds the
\* value of the last parse_live_trader_log call while the files it read
\* are still as it read them
NewPanel(format) ==
  [format |-> format, log |-> <<>>, last_tick_time |-> None,
   now |-> StartMinute * 60, returned |-> None]

\* the threads that call LiveTradingBot.stop: the bot thread, from the
\* finally block of run(), and the GUI thread, from stop_trading
Callers == {"run", "gui"}

\* the live bot once run() has built the strategy and the streamer, about to
\* call streamer.connect(): where each caller stands, where the connection
\* thread stands (none before it is started), the stop event, the streamer's
\* is_running flag, whether the socket object exists and is open, whether
\* log_status has run, and counters of what has happened
NewBot ==
  [pc |-> [c \in Callers |-> IF c = "run" THEN "connect" ELSE "idle"],
   ws |-> "none", stop_event |-> FALSE, is_running |-> FALSE,
   sws |-> FALSE, open |-> FALSE, threads |-> 0, delivered |-> 0,
   logged |-> FALSE, lost |-> FALSE, stream_stops |-> 0, reports |-> 0,
   reported |-> 0]

\* the status monitor of the live bot (LiveTradingBot.log_status, called
\* from the main thread's loop): its position in log_status, the values it
\* has read so far, and the position snapshots the strategy has shown since
\* log_status found a position open
IdleMonitor == [pc |-> "idle", size |-> 0, entry |-> 0, stop |-> 0, seen |-> {}]

\* what one status line reports of a strategy state
Snapshot(s) ==
  <<s.position_size, s.position_entry_price, get_effective_stop_price(s)>>

Init ==
  /\ run \in Runs
  /\ strat = NewStrategy
  /\ tick = [timestamp |-> StartMinute, price |-> BasePrice, volume |-> 0]
  /\ nticks = 0
  /\ ordered = TRUE
  /\ monitor = IdleMonitor
  /\ panel = NewPanel("logzero")
  /\ bot = NewBot

\* the callback runs on_tick on the WebSocket thread, with no lock shared
\* with the monitor
Feed(t) ==
  /\ strat' = on_tick(strat, t.timestamp, t.price, t.volume)
  /\ tick' = t
  /\ nticks' = nticks + 1
  /\ ordered' = (ordered /\ (nticks = 0 \/ t.timestamp >= tick.timestamp))
  /\ monitor' = IF monitor.pc \in {"size", "entry", "stop"}
                THEN [monitor EXCEPT !.seen = @ \cup {Snapshot(strat')}]
                ELSE monitor
  /\ UNCHANGED <<run, panel, bot>>

\* strategy.py ModularIntradayStrategy.on_tick
StrategyOnTick == run.variant = "strategy" /\ \E t \in NextTicks : Feed(t)

\* strategy_refactored.py ModularIntradayStrategy.on_tick
RefactoredOnTick == run.variant = "refactored" /\ \E t \in NextTicks : Feed(t)

\* log_status: `if self.strategy.position_size > 0:` with a non-empty history
LogStatusTest ==
  /\ run.live
  /\ monitor.pc = "idle"
  /\ Len(strat.bar_history) > 0
  /\ strat.position_size > 0
  /\ monitor' = [IdleMonitor EXCEPT !.pc = "size", !.seen = {Snapshot(strat)}]
  /\ UNCHANGED <<run, strat, tick, nticks, ordered, panel, bot>>

\* the f-string reads self.strategy.position_size
LogStatusReadSize ==
  /\ monitor.pc = "size"
  /\ monitor' = [monitor EXCEPT !.pc = "entry", !.size = strat.position_size]
  /\ UNCHANGED <<run, strat, tick, nticks, ordered, panel, bot>>

\* ... then self.strategy.position_entry_price
LogStatusReadEntry ==
  /\ monitor.pc = "entry"
  /\ monitor' = [monitor EXCEPT !.pc = "stop", !.entry = strat.position_entry_price]
  /\ UNCHANGED <<run, strat, tick, nticks, ordered, panel, bot>>

\* ... then self.strategy.get_effective_stop_price(), and logs the line
LogStatusReadStop ==
  /\ monitor.pc = "stop"
  /\ monitor' = [monitor EXCEPT !.pc = "reported",
                                !.stop = get_effective_stop_price(strat)]
  /\ UNCHANGED <<run, strat, tick, nticks, ordered, panel, bot>>

\* time.sleep(15), then the loop calls log_status again; the line stays
\* in the log
LogStatusSleep ==
  /\ monitor.pc = "reported"
  /\ monitor' = [monitor EXCEPT !.pc = "idle"]
  /\ UNCHANGED <<run, strat, tick, nticks, ordered, panel, bot>>

Next ==
  \/ StrategyOnTick
  \/ RefactoredOnTick
  \/ LogStatusTest
  \/ LogStatusReadSize
  \/ LogStatusReadEntry
  \/ LogStatusReadStop
  \/ LogStatusSleep

Spec == Init /\ [][Next]_vars

----------------------------------------------------------------------------
(* The status panel watching the log files of a running bot *)

LogFormats == {"bare", "logzero"}

\* seconds between two looks at the files
ClockSteps == {RecentSeconds \div 2, RecentSeconds \div 2 + 1}

PanelIdle == UNCHANGED <<run, strat, tick, nticks, ordered, monitor, bot>>

PanelInit ==
  /\ run = CHOOSE r \in Runs : r.live
  /\ strat = NewStrategy
  /\ tick = [timestamp |-> StartMinute, price |-> BasePrice, volume |-> 0]
  /\ nticks = 0
  /\ ordered = TRUE
  /\ monitor = IdleMonitor
  /\ panel \in {NewPanel(f) : f \in LogFormats}
  /\ bot = NewBot

\* logger.info / logger.warning: one line, stamped with the current second
WriteLog(text) ==
  /\ panel' = [panel EXCEPT
                 !.log = @ \o <<[format |-> panel.format, time |-> panel.now,
                                 msg |-> text]>>,
                 !.returned = None]
  /\ PanelIdle

\* WebSocketStreamer._on_open
OnOpen ==
  /\ Len(panel.log) < MaxLogLines
  /\ WriteLog("WebSocket Connection Opened")

\* WebSocketStreamer._on_close
OnClose ==
  /\ Len(panel.log) < MaxLogLines
  /\ WriteLog("WebSocket Connection Closed")

\* LiveTradingBot.log_status
LogStatusLine ==
  /\ Len(panel.log) < MaxLogLines
  /\ \E text \in StatusTexts : WriteLog(text)

\* a tick line "timestamp,price,..." reaches price_ticks.log
TickLogged ==
  /\ panel.last_tick_time # Some(panel.now)
  /\ panel' = [panel EXCEPT !.last_tick_time = Some(panel.now),
                            !.returned = None]
  /\ PanelIdle

\* time passes
ClockAdvance ==
  \E d \in ClockSteps :
    /\ panel.now + d <= StartMinute * 60 + MaxElapsed
    /\ panel' = [panel EXCEPT !.now = @ + d, !.returned = None]
    /\ PanelIdle

\* the panel's refresh calls parse_live_trader_log()
PanelRefresh ==
  /\ IsNone(panel.returned)
  /\ panel' = [panel EXCEPT !.returned =
                 Some(parse_live_trader_log(panel.log, panel.last_tick_time,
                                            panel.now))]
  /\ PanelIdle

PanelNext ==
  \/ OnOpen
  \/ OnClose
  \/ LogStatusLine
  \/ TickLogged
  \/ ClockAdvance
  \/ PanelRefresh

PanelSpec == PanelInit /\ [][PanelNext]_vars

----------------------------------------------------------------------------
(* The live bot's lifecycle: LiveTradingBot.run on the bot thread,          *)
(* WebSocketStreamer._run_connection on the connection thread, and          *)
(* LiveTraderGUI.stop_trading on the GUI thread. No lock is taken anywhere; *)
(* each action is one read or write of the shared fields.                   *)

BotIdle == UNCHANGED <<run, strat, tick, nticks, ordered, monitor, panel>>

BotInit ==
  /\ run = CHOOSE r \in Runs : r.live
  /\ strat = NewStrategy
  /\ tick = [timestamp |-> StartMinute, price |-> BasePrice, volume |-> 0]
  /\ nticks = 0
  /\ ordered = TRUE
  /\ monitor = IdleMonitor
  /\ panel = NewPanel("logzero")
  /\ bot = NewBot

Goto(c, label) == [bot.pc EXCEPT ![c] = label]

\* WebSocketStreamer.connect, called by run(): returns when is_running is
\* set, else starts a connection thread
Connect ==
  /\ bot.pc["run"] = "connect"
  /\ bot' = IF bot.is_running
            THEN [bot EXCEPT !.pc = Goto("run", "loop")]
            ELSE [bot EXCEPT !.pc = Goto("run", "loop"), !.ws = "start",
                             !.threads = @ + 1]
  /\ BotIdle

\* while not self._stop_event.is_set() and self.streamer.is_running:
LoopTest ==
  /\ bot.pc["run"] = "loop"
  /\ bot' = [bot EXCEPT !.pc =
               Goto("run", IF ~bot.stop_event /\ bot.is_running
                           THEN "status" ELSE "lost")]
  /\ BotIdle

\* self.log_status(); time.sleep(15)
LoopBody ==
  /\ bot.pc["run"] = "status"
  /\ bot' = [bot EXCEPT !.pc = Goto("run", "loop"), !.logged = TRUE]
  /\ BotIdle

\* if not self.streamer.is_running: logger.warning("... lost."), then the
\* finally block calls stop()
LostTest ==
  /\ bot.pc["run"] = "lost"
  /\ bot' = [bot EXCEPT !.pc = Goto("run", "stop_test"),
                        !.lost = ~bot.is_running]
  /\ BotIdle

\* LiveTraderGUI.stop_trading: self.bot_instance.stop(is_manual_stop=True)
StopTrading ==
  /\ bot.pc["gui"] = "idle"
  /\ bot' = [bot EXCEPT !.pc = Goto("gui", "stop_test")]
  /\ BotIdle

\* stop(): if self._stop_event.is_set(): return
StopTest(c) ==
  /\ bot.pc[c] = "stop_test"
  /\ bot' = [bot EXCEPT !.pc =
               Goto(c, IF bot.stop_event THEN "skipped" ELSE "stop_set")]
  /\ BotIdle

\* stop(): self._stop_event.set(), then self.streamer.stop() is called
StopSet(c) ==
  /\ bot.pc[c] = "stop_set"
  /\ bot' = [bot EXCEPT !.pc = Goto(c, "streamer_stop"), !.stop_event = TRUE,
                        !.stream_stops = @ + 1]
  /\ BotIdle

\* WebSocketStreamer.stop: if not self.is_running: return
StreamerStopTest(c) ==
  /\ bot.pc[c] = "streamer_stop"
  /\ bot' = [bot EXCEPT !.pc =
               Goto(c, IF bot.is_running THEN "streamer_clear" ELSE "report")]
  /\ BotIdle

\* WebSocketStreamer.stop: self.is_running = False
StreamerStopClear(c) ==
  /\ bot.pc[c] = "streamer_clear"
  /\ bot' = [bot EXCEPT !.pc = Goto(c, "close"), !.is_running = FALSE]
  /\ BotIdle

\* WebSocketStreamer.stop: if self.sws: self.sws.close_connection()
StreamerClose(c) ==
  /\ bot.pc[c] = "close"
  /\ bot' = [bot EXCEPT !.pc = Goto(c, "join"),
                        !.open = IF bot.sws THEN FALSE ELSE @]
  /\ BotIdle

\* WebSocketStreamer.stop: self.ws_thread.join(timeout=5) returns when the
\* thread has ended or the five seconds are over
StreamerJoin(c) ==
  /\ bot.pc[c] = "join"
  /\ bot' = [bot EXCEPT !.pc = Goto(c, "report")]
  /\ BotIdle

\* stop(): results = self.strategy.generate_results() and the report, of
\* the ticks the strategy has processed so far; then stop() returns
StopReport(c) ==
  /\ bot.pc[c] = "report"
  /\ bot' = [bot EXCEPT !.pc = Goto(c, "returned"), !.reports = @ + 1,
                        !.reported = bot.delivered]
  /\ BotIdle

\* _run_connection: self.is_running = True
RunConnectionStart ==
  /\ bot.ws = "start"
  /\ bot' = [bot EXCEPT !.ws = "create", !.is_running = TRUE]
  /\ BotIdle

\* _run_connection: self.sws = SmartWebSocketV2(...); self.sws.connect()
RunConnectionOpen ==
  /\ bot.ws = "create"
  /\ bot' = [bot EXCEPT !.ws = "connected", !.sws = TRUE, !.open = TRUE]
  /\ BotIdle

\* _on_data: self.on_tick_callback(timestamp, price, volume)
OnData ==
  /\ bot.ws = "connected"
  /\ bot.open
  /\ bot.delivered < MaxDelivered
  /\ bot' = [bot EXCEPT !.delivered = @ + 1]
  /\ BotIdle

\* the server or the network ends the connection
RemoteClose ==
  /\ bot.ws = "connected"
  /\ bot.open
  /\ bot' = [bot EXCEPT !.open = FALSE]
  /\ BotIdle

\* the blocking self.sws.connect() returns once the connection is closed
RunConnectionReturn ==
  /\ bot.ws = "connected"
  /\ ~bot.open
  /\ bot' = [bot EXCEPT !.ws = "closing"]
  /\ BotIdle

\* _run_connection: self.is_running = False
RunConnectionEnd ==
  /\ bot.ws = "closing"
  /\ bot' = [bot EXCEPT !.ws = "ended", !.is_running = FALSE]
  /\ BotIdle

BotNext ==
  \/ Connect
  \/ LoopTest
  \/ LoopBody
  \/ LostTest
  \/ StopTrading
  \/ \E c \in Callers : StopTest(c)
  \/ \E c \in Callers : StopSet(c)
  \/ \E c \in Callers : StreamerStopTest(c)
  \/ \E c \in Callers : StreamerStopClear(c)
  \/ \E c \in Callers : StreamerClose(c)
  \/ \E c \in Callers : StreamerJoin(c)
  \/ \E c \in Callers : StopReport(c)
  \/ RunConnectionStart
  \/ RunConnectionOpen
  \/ OnData
  \/ RemoteClose
  \/ RunConnectionReturn
  \/ RunConnectionEnd

BotSpec == BotInit /\ [][BotNext]_vars

----------------------------------------------------------------------------
(* Reading the ledger *)

IsEntry(l) == l[1] = "ENTRY"
IsExit(l) == l[1] = "EXIT"
IsFullExit(l) == IsExit(l) /\ l[4] = FullPercent

EntryCount(s) ==
  Cardinality({i \in 1..Len(s.action_logs) : IsEntry(s.action_logs[i])})

\* an ENTRY is recorded by the step
EntryRecorded == EntryCount(strat') > EntryCount(strat)

\* index of the first ENTRY after log index i, or one past the end
NextEntry(s, i) ==
  LET later == {j \in (i + 1)..Len(s.action_logs) : IsEntry(s.action_logs[j])}
  IN IF later = {} THEN Len(s.action_logs) + 1
     ELSE CHOOSE j \in later : \A k \in later : j <= k

\* the k-th EXIT line of action_logs was written together with the k-th trade
TradeOfLog(s, k) ==
  s.trades[Cardinality({j \in 1..k : IsExit(s.action_logs[j])})]

RECURSIVE SumQuantity(_, _, _)
SumQuantity(s, from, to) ==
  IF from > to THEN 0
  ELSE TradeOfLog(s, from).quantity + SumQuantity(s, from + 1, to)

\* quantity recorded so far for the entry at log index i
ExitedFor(s, i) == SumQuantity(s, i + 1, NextEntry(s, i) - 1)

RemainingFor(s, i) ==
  IF NextEntry(s, i) > Len(s.action_logs) THEN s.position_size ELSE 0

RECURSIVE SumPnl(_, _)
SumPnl(trades, n) == IF n = 0 THEN 0 ELSE trades[n].pnl + SumPnl(trades, n - 1)

\* the last ENTRY has not been followed by a 100% exit
OpenEntry(s) ==
  \E i \in 1..Len(s.action_logs) :
    /\ IsEntry(s.action_logs[i])
    /\ \A j \in (i + 1)..Len(s.action_logs) : ~IsFullExit(s.action_logs[j])

----------------------------------------------------------------------------
(* Claims *)

\* C1: at most one long position is open at any time: between two ENTRY
\* lines of the action log there is always a 100% EXIT, and enter_position
\* leaves the state unchanged whenever position_size is not 0.
C1_SinglePosition ==
  /\ \A i, j \in 1..Len(strat.action_logs) :
       (i < j /\ IsEntry(strat.action_logs[i]) /\ IsEntry(strat.action_logs[j]))
         => \E k \in (i + 1)..(j - 1) : IsFullExit(strat.action_logs[k])
  /\ strat.position_size # 0 =>
       \A p \in run.prices : enter_position(strat, p, tick.timestamp) = strat

\* a tick with a full buy signal was processed while the position was open
C1_Witness ==
  /\ strat.position_size > 0
  /\ strat.position_entry_time # Some(tick.timestamp)
  /\ should_allow_new_entries(tick.timestamp)
  /\ has_enough_history(strat)
  /\ BuySignal(strat, CurrentBarRow(strat))
  /\ EntryCount(strat) = 1

\* C2: the effective stop is never below the base stop, whatever the trail
\* state.
C2_BaseFloor == get_effective_stop_price(strat) >= strat.base_stop_price

\* the trail is active and lies below the base stop
C2_Witness ==
  /\ strat.position_size > 0
  /\ strat.trailing_active
  /\ strat.trail_stop_price > 0
  /\ strat.trail_stop_price < strat.base_stop_price

\* C3: within one position, once the trail is active trail_stop_price never
\* decreases from one processed tick to the next.
C3_TrailMonotone ==
  [][(/\ strat.trailing_active
      /\ strat'.trailing_active
      /\ EntryCount(strat') = EntryCount(strat))
       => strat'.trail_stop_price >= strat.trail_stop_price]_vars

\* a tick below the running high was processed with the trail active
C3_Witness ==
  /\ strat.position_size > 0
  /\ strat.trailing_active
  /\ tick.price < strat.position_high_price
  /\ strat.position_entry_time # Some(tick.timestamp)

\* C4: for each entry, the quantities of the trade records written for it
\* plus the remaining position_size equal the size set at entry, and the
\* exited total never exceeds the entered size.
C4_ExitCompleteness ==
  \A i \in 1..Len(strat.action_logs) :
    IsEntry(strat.action_logs[i]) =>
      /\ ExitedFor(strat, i) + RemainingFor(strat, i) = strat.action_logs[i][4]
      /\ ExitedFor(strat, i) <= strat.action_logs[i][4]

\* C5: a tick processed while a position is open, within exit_before_close
\* minutes of the session close or at or past it, fully exits the position
\* on that tick with classification "time" (intraday configurations).
C5_SessionEndExit ==
  [][(/\ cfg.is_intraday
      /\ strat.position_size > 0
      /\ TimeToEnd(tick'.timestamp) <= cfg.exit_before_close)
       => (strat'.position_size = 0 /\ strat'.last_exit_reason = "time")]_vars

\* C6: when the last full exit was classified "time" and the tick has the
\* calendar date of last_time_exit_date, the tick records no ENTRY.
C6_NoReentryAfterTimeExit ==
  [][(/\ strat.last_exit_reason = "time"
      /\ strat.last_time_exit_date = Some(DateOf(tick'.timestamp)))
       => ~EntryRecorded]_vars

\* a later tick of the exit's date was processed flat with every other entry
\* and re-entry condition satisfied
C6_Witness ==
  /\ strat.position_size = 0
  /\ strat.last_exit_reason = "time"
  /\ strat.last_time_exit_date = Some(DateOf(tick.timestamp))
  /\ Len(strat.trades) > 0
  /\ strat.trades[Len(strat.trades)].exit_time # tick.timestamp
  /\ should_allow_new_entries(tick.timestamp)
  /\ has_enough_history(strat)
  /\ BuySignal(strat, CurrentBarRow(strat))
  /\ can_reenter_ignoring_time_exit(strat, tick.price, tick.timestamp,
                                    CurrentBarRow(strat))

\* C7: current_equity is the configured initial capital plus the pnl of all
\* recorded trades, and the first equity point is the configured initial
\* capital.
C7_RealizedEquity ==
  /\ strat.current_equity =
       cfg.initial_capital * SizeScale + SumPnl(strat.trades, Len(strat.trades))
  /\ strat.equity_curve[1].equity = cfg.initial_capital * SizeScale

\* C8: position_size is never negative, and is positive from an ENTRY until
\* the full exit of that position.
C8_SizePositive ==
  /\ strat.position_size >= 0
  /\ OpenEntry(strat) => strat.position_size > 0

\* C9 as stated: an ENTRY is recorded only on a tick where the engine was
\* flat, min_bars_for_signals bars are closed, and the time to session end
\* exceeds exit_before_close + 30 minutes.
C9_EntryOnlyOutsideBlackout ==
  [][EntryRecorded =>
       /\ strat.position_size = 0
       /\ Len(strat'.bar_history) >= min_bars_for_signals
       /\ TimeToEnd(tick'.timestamp) > cfg.exit_before_close + BlackoutMinutes]_vars

\* C9 amended: an ENTRY is recorded only on a tick where the engine was
\* flat, min_bars_for_signals bars are closed, and, when is_intraday is set,
\* the time to session end exceeds exit_before_close + 30 minutes.
C9_EntryPreconditions ==
  [][EntryRecorded =>
       /\ strat.position_size = 0
       /\ Len(strat'.bar_history) >= min_bars_for_signals
       /\ (cfg.is_intraday =>
             TimeToEnd(tick'.timestamp) > cfg.exit_before_close + BlackoutMinutes)]_vars

\* an intraday run recorded an ENTRY on the tick just processed
C9_Witness ==
  /\ cfg.is_intraday
  /\ nticks > 0
  /\ strat.position_size > 0
  /\ strat.position_entry_time = Some(tick.timestamp)
  /\ IsEntry(strat.action_logs[Len(strat.action_logs)])

\* every enabled filter has a valid value for the latest closed bar: the
\* key is present and not NaN, the Supertrend has atr_len + 1 bars, the
\* session VWAP has seen volume
FiltersReady(s) ==
  /\ cfg.use_rsi_filter =>
       /\ "rsi" \in DOMAIN CurrentBarRow(s)
       /\ ~CurrentBarRow(s)["rsi"].nan
  /\ cfg.use_ema_crossover => "ema_bull" \in DOMAIN CurrentBarRow(s)
  /\ cfg.use_supertrend => Len(s.bar_history) >= cfg.atr_len + 1
  /\ cfg.use_vwap => ~s.current_vwap.nan

\* C10: no ENTRY is recorded on a tick where an enabled filter's indicator
\* has no valid value for the latest closed bar.
C10_NotReadySuppression ==
  [][EntryRecorded => FiltersReady(strat')]_vars

\* C11: a tick with a timestamp earlier than the previous tick's, or with a
\* negative price or volume, is discarded and leaves all engine state
\* unchanged.
C11_InvalidInputRejected ==
  [][(\/ nticks > 0 /\ tick'.timestamp < tick.timestamp
      \/ tick'.price < 0
      \/ tick'.volume < 0)
       => strat' = strat]_vars

\* a zero or negative indicator period, or take-profit levels not strictly
\* increasing
ConfigInvalid ==
  \/ \E k \in {"atr_len", "rsi_length", "fast_ema", "slow_ema"} : cfg[k] <= 0
  \/ ~(cfg.tp1_points < cfg.tp2_points /\ cfg.tp2_points < cfg.tp3_points)

\* C12: construction fails for an invalid configuration, so no engine with
\* such a configuration ever processes a tick.
C12_ConfigFailFast == ConfigInvalid => nticks = 0

OhlcOrdered(open, high, low, close) ==
  low <= open /\ open <= high /\ low <= close /\ close <= high

\* C13: every closed bar satisfies low <= open <= high and
\* low <= close <= high, and so does the forming bar once it holds a tick.
C13_OhlcOrdered ==
  /\ \A i \in 1..Len(strat.bar_history) :
       OhlcOrdered(strat.bar_history[i].open, strat.bar_history[i].high,
                   strat.bar_history[i].low, strat.bar_history[i].close)
  /\ ~IsNone(strat.current_bar_data.open) =>
       OhlcOrdered(Val(strat.current_bar_data.open), Val(strat.current_bar_data.high),
                   Val(strat.current_bar_data.low), Val(strat.current_bar_data.close))

\* an out-of-order tick was absorbed into a forming bar whose close lies
\* strictly between its low and its high, after bars with a range closed
C13_Witness ==
  /\ ~ordered
  /\ tick.timestamp < Val(strat.last_processed_minute)
  /\ Val(strat.current_bar_data.low) < Val(strat.current_bar_data.close)
  /\ Val(strat.current_bar_data.close) < Val(strat.current_bar_data.high)
  /\ \E i \in 1..Len(strat.bar_history) :
       strat.bar_history[i].low < strat.bar_history[i].high

\* the step processes a tick
TickProcessed == nticks' = nticks + 1

\* the tick of the step starts a new minute and closes the forming bar
BarClosed ==
  /\ TickProcessed
  /\ ~IsNone(strat.last_processed_minute)
  /\ tick'.timestamp > Val(strat.last_processed_minute)
  /\ ~IsNone(strat.current_bar_data.open)

\* C14: a closed bar's volume is the sum of the volumes of the ticks absorbed
\* while it was forming, and every tick's volume is counted in exactly one
\* bar: a tick that closes a bar moves the accumulated volume into history
\* unchanged and starts the new forming bar with its own volume; any other
\* tick adds its volume to the forming bar; closed bars keep their volume.
C14_BarVolume ==
  [][TickProcessed =>
       IF BarClosed
       THEN /\ strat'.bar_history[Len(strat'.bar_history)].volume
                 = strat.current_bar_data.volume
            /\ strat'.current_bar_data.volume = tick'.volume
            /\ \A i \in 1..(Len(strat'.bar_history) - 1) :
                 strat'.bar_history[i].volume =
                   strat.bar_history[i + Len(strat.bar_history) + 1
                                       - Len(strat'.bar_history)].volume
       ELSE /\ strat'.current_bar_data.volume
                 = strat.current_bar_data.volume + tick'.volume
            /\ Len(strat'.bar_history) = Len(strat.bar_history)
            /\ \A i \in 1..Len(strat.bar_history) :
                 strat'.bar_history[i].volume = strat.bar_history[i].volume]_vars

\* three ticks of volume 3 formed the last closed bar and the tick that
\* closed it is alone in the forming bar
C14_Witness ==
  /\ run.volume = 3
  /\ nticks > TapeLen
  /\ Len(strat.bar_history) > 0
  /\ strat.bar_history[Len(strat.bar_history)].volume = 9
  /\ strat.current_bar_data.volume = 3

\* the history bound the configuration asks for: the supplied
\* max_bar_history_length, or the engine's own default when none is supplied
ConfiguredMaxBars ==
  IF "max_bar_history_length" \in DOMAIN run.params
  THEN run.params.max_bar_history_length
  ELSE max_bar_history_length

\* C15: the number of closed bars retained never exceeds the configured
\* max_bar_history_length, and the retained bars are in close order.
C15_HistoryBounded ==
  /\ Len(strat.bar_history) <= ConfiguredMaxBars
  /\ \A i, j \in 1..Len(strat.bar_history) :
       i < j => strat.bar_history[i].timestamp < strat.bar_history[j].timestamp

\* the closes the latest RSI was computed on, and the losses of its window
RsiWindow(s) == LastN(Closes(s.bar_history), 2 * cfg.rsi_length)

RsiWindowLosses(s) ==
  SumLoss(RsiWindow(s), Len(RsiWindow(s)) - cfg.rsi_length + 1, Len(RsiWindow(s)))

\* the RSI is ready for the latest closed bar: the bar carries the key and
\* rsi_length + 1 bars are closed
RsiReady(s) ==
  /\ Len(s.bar_history) >= cfg.rsi_length + 1
  /\ "rsi" \in DOMAIN LatestBarRow(s)

\* C17: a ready RSI handed to the entry decision is a number within
\* [0, 100], never NaN, and when the window's losses are 0 it is the value
\* obtained with RS = 0.
C17_RsiBounded ==
  RsiReady(strat) =>
    /\ ~LatestBarRow(strat).rsi.nan
    /\ 0 <= LatestBarRow(strat).rsi.num
    /\ LatestBarRow(strat).rsi.num <= 100 * LatestBarRow(strat).rsi.den
    /\ RsiWindowLosses(strat) = 0 => LatestBarRow(strat).rsi.num = 0

\* the reason text of the last 100% EXIT line, or "" when there is none
LastFullExitText(s) ==
  LET full == {i \in 1..Len(s.action_logs) : IsFullExit(s.action_logs[i])}
  IN IF full = {} THEN ""
     ELSE s.action_logs[CHOOSE i \in full : \A j \in full : j <= i][6]

\* C18: after every full exit last_exit_reason is one of time, stop, profit,
\* other: stop after a base or trail stop-loss exit, time after a
\* session-end exit, profit after a TP3 exit.
C18_ExitReasonClassified ==
  LastFullExitText(strat) # "" =>
    /\ strat.last_exit_reason \in {"time", "stop", "profit", "other"}
    /\ LastFullExitText(strat) \in {"MANDATORY: Base Stop Loss",
                                     "MANDATORY: Trail Stop Loss"}
         => strat.last_exit_reason = "stop"
    /\ LastFullExitText(strat) = "MANDATORY: Session End"
         => strat.last_exit_reason = "time"
    /\ LastFullExitText(strat) = "TP3-Runner"
         => strat.last_exit_reason = "profit"

\* C19: generate_results returns the no-trades outcome exactly when no trade
\* record exists, and otherwise the summary of the recorded trades, never an
\* exception; also while a position is open.
C19_ResultsOutcome ==
  /\ generate_results(strat).kind = "no_trades" <=> Len(strat.trades) = 0
  /\ generate_results(strat).kind # "no_trades" =>
       /\ generate_results(strat).kind = "summary"
       /\ generate_results(strat).total_trades = Len(strat.trades)
       /\ generate_results(strat).total_pnl = SumPnl(strat.trades, Len(strat.trades))
       /\ generate_results(strat).final_equity = strat.current_equity

\* a position is open and no exit has been recorded yet
C19_Witness ==
  /\ strat.position_size > 0
  /\ Len(strat.action_logs) > 0
  /\ Len(strat.trades) = 0
  /\ generate_results(strat).kind = "no_trades"

\* C20: every status line reports the position of one strategy state: the
\* size, entry price and effective stop it shows were all true together at
\* some moment between two ticks while log_status ran.
C20_SnapshotConsistent ==
  monitor.pc = "reported" =>
    <<monitor.size, monitor.entry, monitor.stop>> \in monitor.seen

----------------------------------------------------------------------------
(* C21: the status panel and a closed connection *)

\* the line of the newest connection event, by its place in the log
LastEventLine(log) ==
  LET at == {i \in 1..Len(log) : log[i].msg \in EventTexts}
  IN IF at = {} THEN None ELSE Some(log[MaxOfSet(at)])

\* the newest connection event is a close: no open is written after it
ClosedLast(log) ==
  /\ ~IsNone(LastEventLine(log))
  /\ Val(LastEventLine(log)).msg = "WebSocket Connection Closed"

\* no tick line within the last RecentSeconds seconds
NoRecentTick ==
  \/ IsNone(panel.last_tick_time)
  \/ panel.now - Val(panel.last_tick_time) > RecentSeconds

\* the connection counts as up: an open is the newest connection event, or
\* a tick was logged recently
ConsideredUp ==
  \/ ~NoRecentTick
  \/ /\ ~IsNone(LastEventLine(panel.log))
     /\ Val(LastEventLine(panel.log)).msg = "WebSocket Connection Opened"

PanelStatus ==
  IF IsNone(panel.returned) \/ IsNone(Val(panel.returned))
  THEN "none" ELSE Val(Val(panel.returned)).status

\* C21: when parse_live_trader_log returns over a log whose newest
\* connection event is a close, with no tick in the last 120 seconds, it
\* returns API DOWN whatever STATUS lines the log holds; and it returns a
\* STATUS-derived state only when the connection counts as up.
C21_ApiDown ==
  ~IsNone(panel.returned) =>
    /\ (ClosedLast(panel.log) /\ NoRecentTick) => PanelStatus = "API DOWN"
    /\ PanelStatus \in {"IN POSITION", "AWAITING SIGNAL", "COLLECTING DATA"}
         => ConsideredUp

\* the log of test_api_status.simulate_api_down: opened, a STATUS line,
\* then closed, and no tick; reported as API DOWN
C21_Witness ==
  /\ PanelStatus = "API DOWN"
  /\ ClosedLast(panel.log)
  /\ NoRecentTick
  /\ \E i \in 1..Len(panel.log) : panel.log[i].msg \in StatusTexts
  /\ \E i \in 1..Len(panel.log) :
       panel.log[i].msg = "WebSocket Connection Opened"

----------------------------------------------------------------------------
(* C22..C24: priority of the exits on one tick *)

\* the lines the step appends to action_logs
LoggedByStep ==
  SubSeq(strat'.action_logs, Len(strat.action_logs) + 1, Len(strat'.action_logs))

\* the trade records the step appends
TradedByStep ==
  SubSeq(strat'.trades, Len(strat.trades) + 1, Len(strat'.trades))

\* C22: on a tick inside the session-end window while a position is open,
\* the only fill recorded for the tick is the 100% exit classified time, at
\* the tick's price; no stop-loss or take-profit fill is recorded and the
\* trailing stop is not moved, wherever the price stands against the stop
\* and the take-profit levels.
C22_SessionEndFirst ==
  [][(/\ TickProcessed
      /\ strat.position_size > 0
      /\ is_near_session_end(tick'.timestamp))
       => (/\ Len(LoggedByStep) = 1
           /\ IsFullExit(LoggedByStep[1])
           /\ LoggedByStep[1][3] = tick'.price
           /\ LoggedByStep[1][6] = "MANDATORY: Session End"
           /\ Len(TradedByStep) = 1
           /\ TradedByStep[1].quantity = strat.position_size
           /\ strat'.last_exit_reason = "time"
           /\ strat'.position_size = 0
           /\ ~strat'.trailing_active
           /\ strat'.trail_stop_price = 0)]_vars

\* a session-end exit filled at or below the base stop of its position
C22_Witness ==
  /\ strat.position_size = 0
  /\ Len(strat.action_logs) > 0
  /\ strat.action_logs[Len(strat.action_logs)][6] = "MANDATORY: Session End"
  /\ strat.action_logs[Len(strat.action_logs)][3]
       <= Val(strat.last_entry_price) - cfg.base_sl_points

StopTexts == {"MANDATORY: Base Stop Loss", "MANDATORY: Trail Stop Loss"}

\* C23: outside the session-end window, on a tick with a position open
\* whose price is at or below the effective stop as it stands after the
\* trailing stop has been updated with that price, the position is fully
\* exited on that tick by a stop-loss exit and no take-profit fill is
\* recorded, also when the price is at or above an unfilled take-profit
\* level.
C23_StopBeforeTakeProfit ==
  [][(/\ TickProcessed
      /\ strat.position_size > 0
      /\ ~is_near_session_end(tick'.timestamp)
      /\ tick'.price
           <= get_effective_stop_price(update_trailing_stop(strat, tick'.price)))
       => (/\ Len(LoggedByStep) = 1
           /\ IsFullExit(LoggedByStep[1])
           /\ LoggedByStep[1][3] = tick'.price
           /\ LoggedByStep[1][6] \in StopTexts
           /\ TradedByStep[1].quantity = strat.position_size
           /\ strat'.position_size = 0)]_vars

\* a position stopped out by its trail, on the tick that set the trail, at
\* a price that had reached its first take-profit level; the ENTRY is the
\* line before the exit
C23_Witness ==
  /\ strat.position_size = 0
  /\ Len(strat.action_logs) > 1
  /\ strat.action_logs[Len(strat.action_logs)][6] = "MANDATORY: Trail Stop Loss"
  /\ IsEntry(strat.action_logs[Len(strat.action_logs) - 1])
  /\ strat.action_logs[Len(strat.action_logs)][3]
       >= Val(strat.last_entry_price) + cfg.tp1_points

\* the EXIT lines of the position entered at log index i that carry `text`
TierLines(s, i, text) ==
  {j \in (i + 1)..(NextEntry(s, i) - 1) : s.action_logs[j][6] = text}

\* C24: within one position TP1 is filled at most once (50%), TP2 at most
\* once (60%) and only after TP1, TP3 (100%, classified profit) only after
\* TP2; one tick at or above entry + tp3_points may fill all three in that
\* order and leave the engine flat.
C24_TiersInOrder ==
  \A i \in 1..Len(strat.action_logs) :
    IsEntry(strat.action_logs[i]) =>
      /\ \A text \in {"TP1-Quick", "TP2-Medium", "TP3-Runner"} :
           Cardinality(TierLines(strat, i, text)) <= 1
      /\ \A j \in TierLines(strat, i, "TP1-Quick") :
           strat.action_logs[j][4] = Tp1Percent
      /\ \A j \in TierLines(strat, i, "TP2-Medium") :
           /\ strat.action_logs[j][4] = Tp2Percent
           /\ \E k \in TierLines(strat, i, "TP1-Quick") : k < j
      /\ \A j \in TierLines(strat, i, "TP3-Runner") :
           /\ strat.action_logs[j][4] = FullPercent
           /\ \E k \in TierLines(strat, i, "TP2-Medium") : k < j
           /\ j = NextEntry(strat, i) - 1
           /\ (j = Len(strat.action_logs)
                 => strat.position_size = 0 /\ strat.last_exit_reason = "profit")

\* one tick filled TP1, TP2 and TP3 in that order and left the engine flat
C24_Witness ==
  /\ strat.position_size = 0
  /\ Len(strat.action_logs) > 3
  /\ LET n == Len(strat.action_logs)
     IN /\ IsEntry(strat.action_logs[n - 3])
        /\ strat.action_logs[n - 2][6] = "TP1-Quick"
        /\ strat.action_logs[n - 1][6] = "TP2-Medium"
        /\ strat.action_logs[n][6] = "TP3-Runner"
        /\ strat.action_logs[n - 2][2] = strat.action_logs[n][2]
        /\ strat.action_logs[n - 1][2] = strat.action_logs[n][2]
        /\ strat.action_logs[n][3] >= strat.action_logs[n - 3][3] + cfg.tp3_points

----------------------------------------------------------------------------
(* C25..C27: bars and the ticks that close them *)

LastBar(s) == s.bar_history[Len(s.bar_history)]

\* C25: the first tick of a minute later than the last-seen minute appends
\* the forming bar to the history as it stood before the tick, stamped with
\* the last-seen minute, and starts a new forming bar whose open, high, low
\* and close are the tick's price and whose volume is the tick's volume;
\* the last-seen minute becomes the tick's minute; a tick appends at most
\* one bar, however many minutes it skips.
C25_MinuteRollover ==
  [][TickProcessed =>
       /\ Len(strat'.bar_history) <= Len(strat.bar_history) + 1
       /\ BarClosed =>
            /\ Len(strat'.bar_history) > 0
            /\ LastBar(strat').timestamp = Val(strat.last_processed_minute)
            /\ LastBar(strat').open = Val(strat.current_bar_data.open)
            /\ LastBar(strat').high = Val(strat.current_bar_data.high)
            /\ LastBar(strat').low = Val(strat.current_bar_data.low)
            /\ LastBar(strat').close = Val(strat.current_bar_data.close)
            /\ LastBar(strat').volume = strat.current_bar_data.volume
            /\ Len(strat'.bar_history) =
                 Min2(Len(strat.bar_history) + 1, max_bar_history_length)
            /\ strat'.current_bar_data =
                 [open |-> Some(tick'.price), high |-> Some(tick'.price),
                  low |-> Some(tick'.price), close |-> Some(tick'.price),
                  volume |-> tick'.volume, timestamp |-> Some(tick'.timestamp)]
            /\ strat'.last_processed_minute = Some(tick'.timestamp)]_vars

\* a tick that skipped minutes closed one bar, stamped with the minute seen
\* before it, and opened the forming bar at its own, different, price
C25_Witness ==
  /\ nticks > TapeLen
  /\ Len(strat.bar_history) > 0
  /\ strat.current_bar_data.timestamp = Some(tick.timestamp)
  /\ strat.current_bar_data.open = Some(tick.price)
  /\ strat.current_bar_data.volume = tick.volume
  /\ tick.timestamp > LastBar(strat).timestamp + 1
  /\ LastBar(strat).high < tick.price

\* the tick of the step belongs to the last-seen minute or an earlier one
NotLater ==
  /\ TickProcessed
  /\ ~IsNone(strat.last_processed_minute)
  /\ tick'.timestamp <= Val(strat.last_processed_minute)

\* C26: a tick whose minute is not later than the last-seen minute closes
\* no bar and leaves the last-seen minute where it is; it is absorbed into
\* the forming bar, whose high, low, close and volume take the tick in and
\* whose open and timestamp stay, whatever minute the tick carries.
C26_LateTickAbsorbed ==
  [][NotLater =>
       /\ strat'.bar_history = strat.bar_history
       /\ strat'.last_processed_minute = strat.last_processed_minute
       /\ strat'.current_bar_data =
            [open |-> strat.current_bar_data.open,
             high |-> Some(Max2(Val(strat.current_bar_data.high), tick'.price)),
             low |-> Some(Min2(Val(strat.current_bar_data.low), tick'.price)),
             close |-> Some(tick'.price),
             volume |-> strat.current_bar_data.volume + tick'.volume,
             timestamp |-> strat.current_bar_data.timestamp]]_vars

\* a tick of an earlier minute set the high and the close of the forming
\* bar of the last-seen minute
C26_Witness ==
  /\ nticks > TapeLen
  /\ tick.timestamp < Val(strat.last_processed_minute)
  /\ strat.current_bar_data.timestamp = strat.last_processed_minute
  /\ strat.current_bar_data.close = Some(tick.price)
  /\ strat.current_bar_data.high = Some(tick.price)
  /\ Val(strat.current_bar_data.open) < tick.price
  /\ strat.current_bar_data.volume > tick.volume

\* what a closed bar is made of when it is appended
Ohlcv(bar) ==
  <<bar.open, bar.high, bar.low, bar.close, bar.volume, bar.timestamp>>

\* the bar-based values the entry logic reads off the latest closed bar
BarValuesRead(s) ==
  [k \in {"supertrend", "rsi", "ema_bull", "htf_bullish"}
          \cap DOMAIN CurrentBarRow(s) |-> CurrentBarRow(s)[k]]

\* C27: a tick that closes no bar leaves the bar history as it is, and with
\* it the supertrend, rsi, ema_bull and htf_bullish values the entry logic
\* reads; a tick that closes a bar leaves open, high, low, close, volume and
\* timestamp of every bar closed before as they were appended.
C27_HistoryFrame ==
  [][TickProcessed =>
       IF BarClosed
       THEN \A i \in 1..(Len(strat'.bar_history) - 1) :
              Ohlcv(strat'.bar_history[i]) =
                Ohlcv(strat.bar_history[i + Len(strat.bar_history) + 1
                                          - Len(strat'.bar_history)])
       ELSE /\ strat'.bar_history = strat.bar_history
            /\ BarValuesRead(strat') = BarValuesRead(strat)]_vars

\* a tick moved the price away from the close of the latest closed bar
\* without closing a bar; the bar carries the four values the entry logic
\* reads
C27_Witness ==
  /\ nticks > TapeLen
  /\ Len(strat.bar_history) > 0
  /\ strat.current_bar_data.volume > tick.volume
  /\ tick.price # LastBar(strat).close
  /\ DOMAIN BarValuesRead(strat) = {"supertrend", "rsi", "ema_bull", "htf_bullish"}

----------------------------------------------------------------------------
(* C28: the entry signal *)

\* every enabled filter holds on the values of the latest closed bar and of
\* the tick, together with the higher-timeframe trend
EnabledFiltersHold(s, price) ==
  LET row == LatestBarRow(s)
  IN /\ cfg.use_supertrend =>
          "supertrend" \in DOMAIN row /\ row["supertrend"] = 1
     /\ cfg.use_vwap => Gt(Num(price, 1), s.current_vwap)
     /\ cfg.use_ema_crossover =>
          /\ "ema_fast" \in DOMAIN row /\ "ema_slow" \in DOMAIN row
          /\ Gt(row["ema_fast"], row["ema_slow"])
     /\ cfg.use_rsi_filter =>
          /\ "rsi" \in DOMAIN row
          /\ Gt(row["rsi"], Num(cfg.rsi_oversold, 1))
          /\ Lt(row["rsi"], Num(cfg.rsi_overbought, 1))
     /\ "htf_trend" \in DOMAIN row
     /\ Gt(Num(LastBar(s).close, 1), row["htf_trend"])

\* the tick finds the engine flat with no exit behind it, warmed up and
\* outside the blackout
FirstEntryOpen ==
  /\ TickProcessed
  /\ strat.position_size = 0
  /\ IsNone(strat.last_exit_price)
  /\ should_allow_new_entries(tick'.timestamp)
  /\ has_enough_history(strat')

\* C28: when the engine is flat, warmed up, outside the blackout and has no
\* exit behind it, a tick records an ENTRY if and only if every enabled
\* filter (Supertrend up, price above VWAP, fast EMA above slow EMA, RSI
\* strictly between oversold and overbought) holds together with the
\* higher-timeframe trend being bullish.
C28_EntryIffFilters ==
  [][FirstEntryOpen =>
       (EntryRecorded <=> EnabledFiltersHold(strat', tick'.price))]_vars

----------------------------------------------------------------------------
(* C29: re-entry after an exit *)

\* the bullish filters the re-entry gate looks at, as far as enabled
BullishFiltersHold(s, price) ==
  LET row == LatestBarRow(s)
  IN /\ cfg.use_ema_crossover =>
          /\ "ema_fast" \in DOMAIN row /\ "ema_slow" \in DOMAIN row
          /\ Gt(row["ema_fast"], row["ema_slow"])
     /\ cfg.use_vwap => Gt(Num(price, 1), s.current_vwap)
     /\ cfg.use_supertrend =>
          "supertrend" \in DOMAIN row /\ row["supertrend"] = 1

\* over the last reentry_momentum_lookback closed bars the last close is
\* above the first and enough bars closed above their open
MomentumPasses(h) ==
  LET first == Len(h) - cfg.reentry_momentum_lookback + 1
  IN /\ first >= 1
     /\ h[Len(h)].close > h[first].close
     /\ Cardinality({i \in first..Len(h) : h[i].close > h[i].open})
          >= cfg.reentry_min_green_candles

\* the tick comes after a full exit other than a time exit of the tick's day
AfterExit ==
  /\ TickProcessed
  /\ ~IsNone(strat.last_exit_price)
  /\ ~(/\ strat.last_exit_reason = "time"
       /\ strat.last_time_exit_date = Some(DateOf(tick'.timestamp)))

\* C29: after a full exit that is not a time exit of the same day, a tick
\* records an ENTRY only if its price is above last_entry_price +
\* reentry_price_buffer, the enabled bullish filters hold and the momentum
\* check passes on the closed bars; with no exit behind it, an entry whose
\* filters hold is never blocked.
C29_ReentryGate ==
  [][/\ (AfterExit /\ EntryRecorded) =>
          /\ tick'.price > Val(strat.last_entry_price) + cfg.reentry_price_buffer
          /\ BullishFiltersHold(strat', tick'.price)
          /\ MomentumPasses(strat'.bar_history)
     /\ (FirstEntryOpen /\ EnabledFiltersHold(strat', tick'.price))
          => EntryRecorded]_vars

\* a position entered again after a full exit, above the entry price of the
\* position before it
C29_Witness ==
  /\ strat.position_size > 0
  /\ ~IsNone(strat.last_exit_price)
  /\ EntryCount(strat) > 1
  /\ IsEntry(strat.action_logs[Len(strat.action_logs)])
  /\ strat.position_entry_price
       > Val(strat.last_entry_price) + cfg.reentry_price_buffer

----------------------------------------------------------------------------
(* C30: the position fields *)

\* C30: whenever the engine is flat its position fields are reset
\* (trailing_active false; trail_stop_price, base_stop_price,
\* position_high_price, tp1_filled and tp2_filled 0), and while a position
\* is open base_stop_price equals the entry price minus base_sl_points.
C30_PositionFields ==
  /\ strat.position_size = 0 =>
       /\ ~strat.trailing_active
       /\ strat.trail_stop_price = 0
       /\ strat.base_stop_price = 0
       /\ strat.position_high_price = 0
       /\ strat.tp1_filled = 0
       /\ strat.tp2_filled = 0
  /\ strat.position_size # 0 =>
       strat.base_stop_price = strat.position_entry_price - cfg.base_sl_points

\* flat after a position that had filled TP1 with its trail active and was
\* then stopped out by the trail
C30_Witness ==
  /\ strat.position_size = 0
  /\ Len(strat.action_logs) > 2
  /\ strat.action_logs[Len(strat.action_logs)][6] = "MANDATORY: Trail Stop Loss"
  /\ strat.action_logs[Len(strat.action_logs) - 1][6] = "TP1-Quick"
  /\ strat.position_entry_price > 0

----------------------------------------------------------------------------
(* C31: VWAP *)

\* the tick of the step is the first tick, or the first of another date
\* than the tick before it
DayBoundary == nticks = 0 \/ DateOf(tick'.timestamp) # DateOf(tick.timestamp)

\* C31: the VWAP sums are the sums of price * volume and of volume over the
\* ticks since the last change of calendar date between two ticks: a tick
\* at a day boundary restarts both sums from 0 before adding itself, any
\* other tick adds itself to them; the VWAP is their ratio, not-ready while
\* the volume sum is 0, and the bullish flag is false when it is not ready.
C31_VwapPerDay ==
  [][(TickProcessed /\ cfg.use_vwap) =>
       /\ strat'.daily_vwap_sum_tpv =
            (IF DayBoundary THEN 0 ELSE strat.daily_vwap_sum_tpv)
              + tick'.price * tick'.volume
       /\ strat'.daily_vwap_sum_volume =
            (IF DayBoundary THEN 0 ELSE strat.daily_vwap_sum_volume) + tick'.volume
       /\ IF strat'.daily_vwap_sum_volume > 0
          THEN /\ ~strat'.current_vwap.nan
               /\ strat'.current_vwap.num * strat'.daily_vwap_sum_volume
                    = strat'.daily_vwap_sum_tpv * strat'.current_vwap.den
               /\ strat'.current_vwap_bull
                    <=> (tick'.price * strat'.daily_vwap_sum_volume
                           > strat'.daily_vwap_sum_tpv)
          ELSE strat'.current_vwap.nan /\ ~strat'.current_vwap_bull]_vars

\* the first tick of the next day restarted the sums after a day of ticks
C31_Witness ==
  /\ nticks > TapeLen
  /\ DateOf(tick.timestamp) > DateOf(StartMinute)
  /\ strat.daily_vwap_sum_volume = tick.volume
  /\ strat.daily_vwap_sum_tpv = tick.price * tick.volume
  /\ tick.volume > 0
  /\ ~strat.current_vwap.nan

----------------------------------------------------------------------------
(* C32, C33: Supertrend *)

\* C32: the Supertrend trend flag and final bands are those its own update
\* left at the last bar close: a tick that closes a bar leaves them as the
\* update of that bar computed them, any other tick leaves them untouched;
\* no other per-tick processing (the VWAP day-boundary reset in particular)
\* changes them.
C32_SupertrendRetained ==
  [][TickProcessed =>
       SupertrendState(strat') =
         IF BarClosed
         THEN SupertrendState(CloseBar(strat, Val(strat.last_processed_minute)))
         ELSE SupertrendState(strat)]_vars

\* close and raw lower / upper band of the latest bar, in the units of the
\* final bands (3 * atr_len times the price)
ScaledClose(h) == h[Len(h)].close * 3 * cfg.atr_len

RawLower(h) ==
  (h[Len(h)].high + h[Len(h)].low + h[Len(h)].close) * cfg.atr_len
    - cfg.atr_mult * 3 * RollingAtr(h, cfg.atr_len).num

RawUpper(h) ==
  (h[Len(h)].high + h[Len(h)].low + h[Len(h)].close) * cfg.atr_len
    + cfg.atr_mult * 3 * RollingAtr(h, cfg.atr_len).num

\* C33: the Supertrend trend is +1 or -1, +1 at the start; it changes only
\* on a bar close, from +1 to -1 only with the close below the updated
\* final lower band and from -1 to +1 only with the close above the updated
\* final upper band; the final upper band, once set, only decreases unless
\* the close is above it (then it becomes the raw lower band), and the
\* final lower band only increases unless the close is below it (then it
\* becomes the raw upper band).
C33_SupertrendMachine ==
  [][TickProcessed =>
       /\ nticks = 0 => strat.supertrend_trend = 1
       /\ strat'.supertrend_trend \in {1, -1}
       /\ strat'.supertrend_trend # strat.supertrend_trend =>
            /\ BarClosed
            /\ \/ /\ strat.supertrend_trend = 1
                  /\ ScaledClose(strat'.bar_history)
                       < Val(strat'.supertrend_final_lowerband)
               \/ /\ strat.supertrend_trend = -1
                  /\ ScaledClose(strat'.bar_history)
                       > Val(strat'.supertrend_final_upperband)
       /\ ~IsNone(strat.supertrend_final_upperband) =>
            /\ ~IsNone(strat'.supertrend_final_upperband)
            /\ \/ Val(strat'.supertrend_final_upperband)
                    <= Val(strat.supertrend_final_upperband)
               \/ /\ BarClosed
                  /\ ScaledClose(strat'.bar_history)
                       > Val(strat.supertrend_final_upperband)
                  /\ Val(strat'.supertrend_final_upperband)
                       = RawLower(strat'.bar_history)
       /\ ~IsNone(strat.supertrend_final_lowerband) =>
            /\ ~IsNone(strat'.supertrend_final_lowerband)
            /\ \/ Val(strat'.supertrend_final_lowerband)
                    >= Val(strat.supertrend_final_lowerband)
               \/ /\ BarClosed
                  /\ ScaledClose(strat'.bar_history)
                       < Val(strat.supertrend_final_lowerband)
                  /\ Val(strat'.supertrend_final_lowerband)
                       = RawUpper(strat'.bar_history)]_vars

----------------------------------------------------------------------------
(* C34: entries and the trading session *)

\* C34: with is_intraday set, a tick that records an ENTRY has a time of day
\* from the configured session start to the configured session end.
C34_EntriesInSession ==
  [][(TickProcessed /\ cfg.is_intraday /\ EntryRecorded) =>
       is_in_session(tick'.timestamp)]_vars

----------------------------------------------------------------------------
(* C35: warm-up *)

\* C35: the warm-up condition, history length >= min_bars_for_signals, holds
\* from the close of the min_bars_for_signals-th bar on: a bar close after
\* the tape (whose min_bars_for_signals minutes leave all but the last bar
\* closed) satisfies it, and once it holds it holds after every later tick.
C35_WarmupKept ==
  [][TickProcessed =>
       /\ (nticks >= TapeLen /\ BarClosed) => has_enough_history(strat')
       /\ has_enough_history(strat) => has_enough_history(strat')]_vars

----------------------------------------------------------------------------
(* C36: re-entry with the VWAP and Supertrend filters disabled *)

\* the engine is flat after a full exit other than a time exit of the day,
\* warmed up and outside the blackout, with use_vwap and use_supertrend off
ReentryOpenFiltersOff ==
  /\ AfterExit
  /\ ~cfg.use_vwap /\ ~cfg.use_supertrend
  /\ strat.position_size = 0
  /\ ~IsNone(strat.last_entry_price)
  /\ should_allow_new_entries(tick'.timestamp)
  /\ has_enough_history(strat')

\* C36: with use_vwap and use_supertrend both disabled, a tick after a
\* non-time full exit whose price exceeds last_entry_price +
\* reentry_price_buffer, with every remaining enabled filter bullish and the
\* momentum check passing, records an ENTRY.
C36_ReentryFiltersOff ==
  [][(/\ ReentryOpenFiltersOff
      /\ tick'.price > Val(strat.last_entry_price) + cfg.reentry_price_buffer
      /\ EnabledFiltersHold(strat', tick'.price)
      /\ MomentumPasses(strat'.bar_history))
       => EntryRecorded]_vars

----------------------------------------------------------------------------
(* C37: the RSI filter on a window without a down-move *)

\* the RSI the entry decision reads is strictly between the two thresholds
RsiWithinThresholds(s) ==
  /\ Gt(LatestBarRow(s).rsi, Num(cfg.rsi_oversold, 1))
  /\ Lt(LatestBarRow(s).rsi, Num(cfg.rsi_overbought, 1))

\* C37: with the RSI filter enabled, when the window of the latest closed
\* bar's RSI has no down-move (its losses sum to 0), that RSI is not
\* strictly between rsi_oversold and rsi_overbought, and the tick records no
\* ENTRY.
C37_LosslessRsiBlocks ==
  [][(/\ TickProcessed
      /\ cfg.use_rsi_filter
      /\ RsiReady(strat')
      /\ RsiWindowLosses(strat') = 0)
       => /\ ~RsiWithinThresholds(strat')
          /\ ~EntryRecorded]_vars

\* a flat, warmed-up engine outside the blackout whose latest RSI window has
\* no down-move, with the EMA, VWAP and Supertrend filters bullish
C37_Witness ==
  /\ nticks > TapeLen
  /\ cfg.use_rsi_filter /\ cfg.use_ema_crossover
  /\ cfg.use_vwap /\ cfg.use_supertrend
  /\ RsiReady(strat)
  /\ RsiWindowLosses(strat) = 0
  /\ strat.position_size = 0
  /\ IsNone(strat.last_exit_price)
  /\ has_enough_history(strat)
  /\ should_allow_new_entries(tick.timestamp)
  /\ BullishFiltersHold(strat, tick.price)

----------------------------------------------------------------------------
(* C38, C39, C40: the live bot's connect / stop lifecycle *)

\* a connection was opened and is closed again
ConnectionEnded == bot.sws /\ ~bot.open

\* C38: once run() has called connect(), the monitor loop is left, and a
\* lost connection is reported, only after a stop was requested or a
\* connection that had been opened ended, never because the connection
\* thread has not yet set is_running; and at most one connection thread is
\* ever started.
C38_LoopKeepsRunning ==
  /\ bot.pc["run"] \in {"lost", "stop_test"} =>
       bot.stop_event \/ ConnectionEnded
  /\ bot.lost => bot.stop_event \/ ConnectionEnded
  /\ bot.threads <= 1

\* a call of stop() that set the stop event has returned
StopReturned == \E c \in Callers : bot.pc[c] = "returned"

\* C39: once stop() has returned the data stream is closed and stays closed,
\* no further tick reaches strategy.on_tick, and the final report covers
\* every tick delivered.
C39_StoppedMeansClosed ==
  [][StopReturned =>
       /\ ~bot.open /\ ~bot'.open
       /\ bot.ws \notin {"start", "create"}
       /\ bot'.delivered = bot.delivered
       /\ bot.reported = bot.delivered]_vars

\* C40: however the calls of stop() from the GUI thread and from run()'s
\* finally block interleave, the stream is stopped and the final report
\* generated at most once, and exactly once when both calls are over.
C40_StopOnce ==
  /\ bot.stream_stops <= 1
  /\ bot.reports <= 1
  /\ (\A c \in Callers : bot.pc[c] \in {"returned", "skipped"}) =>
       bot.stream_stops = 1 /\ bot.reports = 1

====
